---- MODULE Spec2Model ----
(***************************************************************************)
(* A model of the PMDA package-insert extraction engine (src/src/parsers). *)
(*                                                                         *)
(* Text is a sequence of one-character strings.  The module is ASCII, so   *)
(* the Japanese literals of the source are written with stand-ins:         *)
(*   "<"  the opening delimiter U+3008, ">" the closing delimiter U+3009,  *)
(*   "juutoku" the severity 'serious', "hijuutoku" 'non-serious' (each one *)
(*   token, they are never measured or split),                             *)
(*   " "  any whitespace character (what str.strip() removes).             *)
(***************************************************************************)
EXTENDS Naturals, Sequences, FiniteSets, TLC

VARIABLES
    pc,          \* position of the driver of the specification in force
    items,       \* remove_duplicates_by_key: the list handed in
    key,         \* remove_duplicates_by_key: the key handed in
    result,      \* remove_duplicates_by_key: the list returned
    result2,     \* the list returned by a second run on result
    section,     \* the section of the document that holds the Items
    tree,        \* the Items of that section, in document order
    instructions,\* OtherAdverseEvents: the Instructions/SimpleList/Item elements
    reactions,   \* OtherAdverseEvents: the AdverseReactionDescription Details
    calls,       \* every invocation of _process_nested_items, in call order
    records,     \* the list the extractor returned
    returned,    \* extract_condition_header: the string returned
    doc,         \* the parsed document a SharedXMLProcessor holds
    extractions, \* what the category extractors returned, one entry per
                 \* invocation of extract_clinical_info, in call order
    clinical,    \* the dict extract_clinical_info returned
    medicines,   \* the list process_all_brands returned
    parser_path, \* DosageParser: the file_path it was constructed with
    dosage_section,  \* DosageParser: the InfoDoseAdmin of its document
    complex,     \* what _has_complex_dosage_methods returned
    grown_section,   \* the same section with Details or table blocks added
    complex_grown,   \* what _has_complex_dosage_methods returned for it
    dosage_records,  \* what extract_dosages returned for dosage_section
    table_rows,  \* the SimpTblRow elements of one SimpleTable
    bsa_entries, \* what _parse_complex_dosage_table returned for them
    table_entries,   \* what _parse_dosage_table returned for them
    raw_document,    \* CompositionParser: the CompositionForBrand elements of
                     \* the file, as written in it
    additive_brand,  \* CompositionParser: its brand_id
    raw_readable,    \* whether it has a file_path and the file can be read
    recovered,       \* each text handed to
                     \* _extract_additive_list_from_raw_xml with what it returned
    additives_found, \* result["additives"] of extract_compositions
    generator_brand, \* PMDAJSONGenerator: the brand_info handed to
                     \* _process_clinical_info
    generator_info,  \* the clinical_info it set in medicine_data
    generator_statistics, \* its statistics: vectors_count and
                     \* medicines_with_clinical_info
    directory,       \* the files under SGML_XML, in the order os.walk yields them
    batch_size,      \* PMDAJSONGeneratorOptimized: its batch_size
    unique_files,    \* generate_json_optimized: the files it keeps
    batches,         \* what BatchProcessor._create_batches returned
    worker_results,  \* what process_batch_worker returned, by batch
    collected,       \* the batches whose future the main loop has handled,
                     \* in that order
    all_medicines,   \* generate_json_optimized: the records collected
    run_statistics,  \* PMDAJSONGeneratorOptimized: its statistics
    candidates       \* what detect_parse_candidates returned, <<0>> before
                     \* it is called

dedupVars == <<items, key, result, result2>>
walkVars == <<section, tree, instructions, reactions, calls, records>>
headerVars == <<returned>>
clinicalVars == <<doc, extractions, clinical, medicines>>
dosageVars ==
    <<parser_path, dosage_section, complex, grown_section, complex_grown,
      dosage_records>>
tableVars == <<table_rows, bsa_entries, table_entries>>
\* The variables of the specifications defined after SpecDosage.
additiveVars ==
    <<raw_document, additive_brand, raw_readable, recovered, additives_found>>
generatorVars == <<generator_brand, generator_info, generator_statistics>>
batchVars ==
    <<directory, batch_size, unique_files, batches, worker_results, collected,
      all_medicines, run_statistics, candidates>>
laterVars == <<tableVars, additiveVars, generatorVars, batchVars>>
vars == <<pc, dedupVars, walkVars, headerVars, clinicalVars, dosageVars, laterVars>>

-----------------------------------------------------------------------------
(* Bounds of the model *)

MaxLen == 4          \* longest list handed to remove_duplicates_by_key
MaxItems == 3        \* most Item elements in a section

-----------------------------------------------------------------------------
(* Text helpers: Python's str operations on sequences of characters *)

Range(s) == { s[i] : i \in DOMAIN s }

IsSpace(c) == c = " "

RECURSIVE LStrip(_)
LStrip(s) == IF s # <<>> /\ IsSpace(Head(s)) THEN LStrip(Tail(s)) ELSE s

RECURSIVE RStrip(_)
RStrip(s) ==
    IF s # <<>> /\ IsSpace(s[Len(s)]) THEN RStrip(SubSeq(s, 1, Len(s) - 1)) ELSE s

\* str.strip()
Strip(s) == RStrip(LStrip(s))

\* str.replace(c, '') for a one-character c
Remove(s, c) == SelectSeq(s, LAMBDA x : x # c)

\* All sequences over S of length at most n
SeqsUpTo(S, n) == UNION { [1..k -> S] : k \in 0..n }

-----------------------------------------------------------------------------
(* xml_utils.remove_duplicates_by_key *)

\* The loop body: seen and result are the two locals, i the loop position.
RECURSIVE RemoveDuplicatesLoop(_, _, _, _, _)
RemoveDuplicatesLoop(its, k, i, seen, res) ==
    IF i > Len(its) THEN res
    ELSE LET item == its[i] IN
         IF k \in DOMAIN item /\ item[k] \notin seen
         THEN RemoveDuplicatesLoop(its, k, i + 1, seen \cup {item[k]}, Append(res, item))
         ELSE RemoveDuplicatesLoop(its, k, i + 1, seen, res)

\* A bug the loop could have: removing from the list being iterated, so that
\* the element after a dropped one is stepped over unexamined and kept.
RECURSIVE SkipAfterDropLoop(_, _, _, _, _)
SkipAfterDropLoop(its, k, i, seen, res) ==
    IF i > Len(its) THEN res
    ELSE LET item == its[i] IN
         IF k \in DOMAIN item /\ item[k] \notin seen
         THEN SkipAfterDropLoop(its, k, i + 1, seen \cup {item[k]}, Append(res, item))
         ELSE IF i + 1 <= Len(its)
              THEN SkipAfterDropLoop(its, k, i + 2, seen, Append(res, its[i + 1]))
              ELSE res

RemoveDuplicatesSkipAfterDrop(its, k) == SkipAfterDropLoop(its, k, 1, {}, <<>>)

RemoveDuplicatesByKey(its, k) == RemoveDuplicatesLoop(its, k, 1, {}, <<>>)

-----------------------------------------------------------------------------
(* The Items of a section.  tree lists them in document order; depth is the *)
(* nesting of an Item (1: directly in the section's list), headers the text *)
(* of its direct Header/Lang[ja] children, details the text of its direct   *)
(* Detail/Lang[ja] children.                                                *)

\* The last Item of the subtree of Item i.
SubtreeEnd(t, i) ==
    CHOOSE e \in i..Len(t) :
        /\ \A k \in (i + 1)..e : t[k].depth > t[i].depth
        /\ (e < Len(t) => t[e + 1].depth <= t[i].depth)

\* findall('./pmda:SimpleList/pmda:Item'): the nested Items one level down.
Children(t, i) ==
    SelectSeq([k \in 1..Len(t) |-> k],
              LAMBDA k : /\ i < k /\ k <= SubtreeEnd(t, i)
                         /\ t[k].depth = t[i].depth + 1)

\* findall('.//pmda:Item') under the section: every Item, in document order.
AllItems(t) == [k \in 1..Len(t) |-> k]

\* findall('./pmda:SimpleList/pmda:Item') under the section.
TopItems(t) == SelectSeq(AllItems(t), LAMBDA k : t[k].depth = 1)

\* findall('.//pmda:Header/pmda:Lang'): the headers of an Item and of every
\* Item nested in it.
RECURSIVE HeadersFromTo(_, _, _)
HeadersFromTo(t, i, e) ==
    IF i > e THEN <<>> ELSE t[i].headers \o HeadersFromTo(t, i + 1, e)

-----------------------------------------------------------------------------
(* xml_utils.extract_condition_header *)

MinConditionLen == 2     \* len(condition.strip()) > 2
MinHeaderLen == 1        \* 1 < len(full_text)
MaxHeaderLen == 200      \* len(full_text) < 200

\* The loop over the Header elements found, hs their texts (itertext joined).
RECURSIVE ConditionOfHeaders(_)
ConditionOfHeaders(hs) ==
    IF hs = <<>> THEN <<>>
    ELSE LET full_text == Strip(Head(hs)) IN
         IF full_text # <<>>
         THEN IF "<" \in Range(full_text) /\ ">" \in Range(full_text)
              THEN LET condition == Remove(Remove(full_text, "<"), ">") IN
                   IF condition # <<>> /\ Len(Strip(condition)) > MinConditionLen
                   THEN Strip(condition)
                   ELSE ConditionOfHeaders(Tail(hs))
              ELSE IF MinHeaderLen < Len(full_text) /\ Len(full_text) < MaxHeaderLen
                   THEN full_text
                   ELSE ConditionOfHeaders(Tail(hs))
         ELSE ConditionOfHeaders(Tail(hs))

\* A bug the lookup could have: './/pmda:Header' instead of './pmda:Header',
\* which also finds the headers of nested Items.
ExtractConditionHeaderDeep(t, i) ==
    ConditionOfHeaders(HeadersFromTo(t, i, SubtreeEnd(t, i)))

ExtractConditionHeader(t, i) == ConditionOfHeaders(t[i].headers)

\* SideEffectParser._extract_condition_header: the parser's own copy.
SideEffectExtractConditionHeader(t, i) == ConditionOfHeaders(t[i].headers)

-----------------------------------------------------------------------------
(* DosageParser: the nested item walk *)

Colon == <<":">>

\* _format_dosage_with_condition
FormatDosageWithCondition(text, condition_header) ==
    IF condition_header # <<>> /\ Strip(condition_header) # <<>>
    THEN condition_header \o Colon \o text
    ELSE text

\* A bug the combination could have: the current header put before the
\* context inherited from the ancestors.
DosageCombineReversed(parent_condition, current_condition) ==
    IF parent_condition # <<>> /\ current_condition # <<>>
    THEN current_condition \o Colon \o parent_condition
    ELSE IF parent_condition # <<>> THEN parent_condition
    ELSE IF current_condition # <<>> THEN current_condition
    ELSE <<>>

\* _process_nested_items, the if/elif chain that builds combined_condition
DosageCombine(parent_condition, current_condition) ==
    IF parent_condition # <<>> /\ current_condition # <<>>
    THEN parent_condition \o Colon \o current_condition
    ELSE IF parent_condition # <<>> THEN parent_condition
    ELSE IF current_condition # <<>> THEN current_condition
    ELSE <<>>

\* The Details that pass 'if detail.text and detail.text.strip()', stripped.
StrippedDetails(ds) ==
    LET nonblank == SelectSeq(ds, LAMBDA d : Strip(d) # <<>>)
    IN  [k \in 1..Len(nonblank) |-> Strip(nonblank[k])]

\* One invocation of _process_nested_items as a frame: its arguments, its
\* locals and the texts it appended itself; 'from' is the Item whose
\* invocation made the call, 0 for a call made by the extractor.
\* The list an invocation returns is the texts of its own frame followed by
\* those of the frames of its nested Items, in order.
RECURSIVE DosageProcessNestedItems(_, _, _, _)
RECURSIVE DosageProcessEach(_, _, _, _)
DosageProcessNestedItems(t, i, parent_condition, from) ==
    LET current_condition == ExtractConditionHeader(t, i)
        combined_condition == DosageCombine(parent_condition, current_condition)
        details == StrippedDetails(t[i].details)
        frame == [item |-> i, from |-> from,
                  parent_condition |-> parent_condition,
                  current_condition |-> current_condition,
                  combined_condition |-> combined_condition,
                  emitted |-> [k \in 1..Len(details) |->
                      FormatDosageWithCondition(details[k], combined_condition)]]
    IN  <<frame>> \o DosageProcessEach(t, Children(t, i), combined_condition, i)

DosageProcessEach(t, nested_items, combined_condition, from) ==
    IF nested_items = <<>> THEN <<>>
    ELSE DosageProcessNestedItems(t, Head(nested_items), combined_condition, from)
         \o DosageProcessEach(t, Tail(nested_items), combined_condition, from)

\* The texts a sequence of frames stands for, in order.
RECURSIVE TextsOf(_)
TextsOf(frames) ==
    IF frames = <<>> THEN <<>> ELSE Head(frames).emitted \o TextsOf(Tail(frames))

\* 'if not any(existing["text"] == text ...): append', for each text in turn.
RECURSIVE AppendUnique(_, _)
AppendUnique(acc, texts) ==
    IF texts = <<>> THEN acc
    ELSE AppendUnique(IF Head(texts) \in Range(acc) THEN acc
                      ELSE Append(acc, Head(texts)),
                      Tail(texts))

-----------------------------------------------------------------------------
(* DosageParser: the dosage section and extract_dosages                     *)
(*                                                                          *)
(* A dosage section is a record:                                            *)
(*   info        an InfoDoseAdmin element exists                            *)
(*   dose_admin  it holds a DoseAdmin element; without one the details and  *)
(*               table blocks below sit directly in InfoDoseAdmin           *)
(*   headers     the direct Header/Lang texts of DoseAdmin                  *)
(*   details     the direct Detail/Lang texts (element.text)                *)
(*   items       the Items of its SimpleList, as in tree                    *)
(*   tbl_blocks  its TblBlock elements: simple_table (a SimpleTable exists) *)
(*               and rows, each row the Detail/Lang texts of its cells      *)
(*   comments    its Comment/Lang texts                                     *)
(* In document order the details come first, then the Items, then the      *)
(* table blocks, then the comments.                                         *)
(* In dosage text "A".."F" are the method letters, "m" stands for the sign  *)
(* U+6CD5 that follows them, "|" for the full-width colon U+FF1A, "ENTER"   *)
(* for the literal marker '<?enter?>', "youhou" for the field label the     *)
(* document-wide scan searches, "chuui" for the comment prefix.            *)

MethodLetters == <<"A", "B", "C", "D", "E", "F">>

\* [A-F] followed by the sign and the full-width colon, at position p of s
LabelAt(s, p) ==
    /\ p + 2 <= Len(s)
    /\ s[p] \in Range(MethodLetters)
    /\ s[p + 1] = "m"
    /\ s[p + 2] = "|"

\* re.findall(r'([A-F]m)|', all_text): the labels found, as a set
MethodLabelsIn(s) == { <<s[p], "m">> : p \in { q \in DOMAIN s : LabelAt(s, q) } }

\* A cut that keeps the marker and the text after it.
KeepAfterEnter(s) == s

\* str.split('<?enter?>')[0]
BeforeEnter(s) ==
    IF "ENTER" \in Range(s)
    THEN SubSeq(s, 1, (CHOOSE p \in DOMAIN s :
                          s[p] = "ENTER" /\ \A q \in 1..(p - 1) : s[q] # "ENTER") - 1)
    ELSE s

\* str.replace('<?enter?>', '\n')
EnterToNewline(s) == [p \in DOMAIN s |-> IF s[p] = "ENTER" THEN " " ELSE s[p]]

\* 'all_text += detail.text + " "' over the Detail texts ds that are not empty
RECURSIVE JoinWithSpace(_)
JoinWithSpace(ds) ==
    IF ds = <<>> THEN <<>>
    ELSE (IF Head(ds) # <<>> THEN Head(ds) \o <<" ">> ELSE <<>>)
         \o JoinWithSpace(Tail(ds))

RECURSIVE ConcatAll(_)
ConcatAll(ss) == IF ss = <<>> THEN <<>> ELSE Head(ss) \o ConcatAll(Tail(ss))

\* The cell texts of a table block, row by row.
CellTexts(tbl) ==
    ConcatAll([r \in 1..Len(tbl.rows) |->
        ConcatAll([c \in 1..Len(tbl.rows[r]) |->
            [n \in 1..Len(tbl.rows[r][c]) |-> tbl.rows[r][c][n].text]])])

\* findall('.//pmda:Detail/pmda:Lang') under the section, in document order
AllDetailTexts(dose) ==
    dose.details
    \o ConcatAll([k \in 1..Len(dose.items) |-> dose.items[k].details])
    \o ConcatAll([k \in 1..Len(dose.tbl_blocks) |-> CellTexts(dose.tbl_blocks[k])])

\* _has_complex_dosage_methods
HasComplexDosageMethods(file_path, dose) ==
    IF file_path = "" THEN FALSE
    ELSE IF ~dose.info THEN FALSE
    ELSE LET all_text == JoinWithSpace(AllDetailTexts(dose))
             methods == MethodLabelsIn(all_text)
         IN  Cardinality(methods) >= 2 \/ Len(dose.tbl_blocks) >= 2

\* A cell is the sequence of its Lang elements; a Lang is [text, children],
\* a child element [tag, text, kids, tail], and a kid, an element nested in
\* a child, [tag, text, tail].
TextCell(t) == << [text |-> t, children |-> <<>>] >>

Squared == <<"sq">>             \* stands for the superscript two U+00B2

\* The rendering of a Sup element's text
SupText(child_text) == IF child_text = <<"2">> THEN Squared ELSE child_text

\* extract_text_recursive for an element nested two deep, with its tail
KidText(kid) ==
    (IF kid.tag = "Sup" THEN SupText(kid.text) ELSE kid.text) \o kid.tail

\* extract_text_recursive for a child of the Lang, with its tail
ChildText(child) ==
    (IF child.tag = "Sup" THEN SupText(child.text)
     ELSE child.text
          \o ConcatAll([k \in 1..Len(child.kids) |-> KidText(child.kids[k])]))
    \o child.tail

\* _extract_cell_content
ExtractCellContent(cell) ==
    ConcatAll([n \in 1..Len(cell) |->
        cell[n].text
        \o ConcatAll([k \in 1..Len(cell[n].children) |->
                         ChildText(cell[n].children[k])])])

\* _parse_complex_dosage_table: rows[1:], two cells, both non-empty
ParseComplexDosageTable(rows) ==
    LET data == SelectSeq(SubSeq(rows, 2, Len(rows)),
                          LAMBDA row : /\ Len(row) >= 2
                                       /\ Strip(ExtractCellContent(row[1])) # <<>>
                                       /\ Strip(ExtractCellContent(row[2])) # <<>>)
    IN  [k \in 1..Len(data) |->
            Strip(ExtractCellContent(data[k][1])) \o Colon
            \o Strip(ExtractCellContent(data[k][2]))]

\* re.findall(method_pattern, all_text, re.DOTALL) from position pos on:
\* <<method_name, method_detail>> pairs.  The lazy '.+?' takes at least one
\* character and stops before the next label or at the end of the text.
RECURSIVE FindMethods(_, _)
FindMethods(s, pos) ==
    IF pos > Len(s) THEN <<>>
    ELSE IF LabelAt(s, pos) /\ pos + 3 <= Len(s)
    THEN LET q == CHOOSE e \in (pos + 3)..Len(s) :
                      /\ (e = Len(s) \/ LabelAt(s, e + 1))
                      /\ \A f \in (pos + 3)..(e - 1) : ~LabelAt(s, f + 1)
         IN  << <<SubSeq(s, pos, pos + 1), SubSeq(s, pos + 3, q)>> >>
             \o FindMethods(s, q + 1)
    ELSE FindMethods(s, pos + 1)

\* ord(method_name[0]) - ord('A')
MethodIndex(method_name) ==
    CHOOSE n \in 0..5 : MethodLetters[n + 1] = method_name[1]

\* 'for i, tbl_block in enumerate(tbl_blocks)': the rows decoded for a method
DosageByBsa(method_name, tbl_blocks) ==
    LET i == MethodIndex(method_name) IN
    IF i + 1 <= Len(tbl_blocks) /\ tbl_blocks[i + 1].simple_table
    THEN ParseComplexDosageTable(tbl_blocks[i + 1].rows)
    ELSE <<>>

RECURSIVE JoinWith(_, _)
JoinWith(sep, ss) ==
    IF ss = <<>> THEN <<>>
    ELSE IF Len(ss) = 1 THEN Head(ss)
    ELSE Head(ss) \o sep \o JoinWith(sep, Tail(ss))

BsaSeparator == <<",">>         \* stands for the ideographic comma U+3001
BsaPrefix == <<"/", "bsa">>     \* '/' and the three signs of 'body surface area'

\* The record of one method: the body of 'for method_name, method_detail'
MethodText(method, tbl_blocks) ==
    LET method_name == method[1]
        schedule_text == Strip(BeforeEnter(method[2]))
        dosage_by_bsa == DosageByBsa(method_name, tbl_blocks)
    IN  IF dosage_by_bsa # <<>>
        THEN method_name \o Colon \o schedule_text \o BsaPrefix
             \o JoinWith(BsaSeparator, dosage_by_bsa)
        ELSE method_name \o Colon \o schedule_text

\* _extract_complex_dosages.  It raises (AttributeError on None) when the
\* section has no DoseAdmin: 'dose_admin.findall' is reached unguarded.
ExtractComplexDosages(dose) ==
    IF ~dose.info THEN [raised |-> FALSE, texts |-> <<>>]
    ELSE IF ~dose.dose_admin THEN [raised |-> TRUE, texts |-> <<>>]
    ELSE LET premise ==
                 IF dose.details # <<>> /\ Head(dose.details) # <<>>
                 THEN LET premise_text == BeforeEnter(Strip(Head(dose.details)))
                      IN  IF premise_text # <<>> THEN <<premise_text>> ELSE <<>>
                 ELSE <<>>
             all_text == JoinWithSpace(AllDetailTexts(dose))
             methods == FindMethods(all_text, 1)
         IN  [raised |-> FALSE,
              texts |-> premise \o [k \in 1..Len(methods) |->
                                       MethodText(methods[k], dose.tbl_blocks)]]

\* ' '.join(text_parts)
RECURSIVE JoinSpaced(_)
JoinSpaced(parts) ==
    IF parts = <<>> THEN <<>>
    ELSE IF Len(parts) = 1 THEN Head(parts)
    ELSE Head(parts) \o <<" ">> \o JoinSpaced(Tail(parts))

\* _extract_table_cell_text: the text of each Lang ahead of its first child
ExtractTableCellText(cell) ==
    LET with_text == SelectSeq(cell, LAMBDA lang : lang.text # <<>>)
        text_parts == [n \in 1..Len(with_text) |-> Strip(with_text[n].text)]
    IN  Strip(EnterToNewline(JoinSpaced(text_parts)))

NoData == <<"-">>               \* stands for the full-width hyphen U+FF0D
Arrow == <<" ", "->", " ">>     \* ' ', the arrow U+2192, ' '
Slash == <<" ", "/", " ">>

\* The dose entries of one data row: cells[1:], with the header row's labels
RECURSIVE DosageInfo(_, _, _)
DosageInfo(cells, headers, i) ==
    IF i + 1 > Len(cells) THEN <<>>
    ELSE LET cell_text == ExtractTableCellText(cells[i + 1])
             rest == DosageInfo(cells, headers, i + 1)
         IN  IF cell_text # <<>> /\ Strip(cell_text) # NoData /\ Strip(cell_text) # <<>>
             THEN IF i < Len(headers)
                  THEN <<Strip(Remove(headers[i + 1], "ENTER")) \o Colon \o cell_text>>
                       \o rest
                  ELSE <<cell_text>> \o rest
             ELSE rest

\* _parse_dosage_table
ParseDosageTable(tbl_block) ==
    IF ~tbl_block.simple_table \/ tbl_block.rows = <<>> THEN <<>>
    ELSE LET rows == tbl_block.rows
             header_texts == [k \in 1..Len(rows[1]) |-> ExtractTableCellText(rows[1][k])]
             headers == SelectSeq(header_texts, LAMBDA h : h # <<>>)
             entry(cells) ==
                 IF cells = <<>> THEN <<>>
                 ELSE LET procedure_name == ExtractTableCellText(cells[1])
                          dosage_info == DosageInfo(cells, headers, 1)
                      IN  IF procedure_name = <<>> \/ Strip(procedure_name) = <<>>
                          THEN <<>>
                          ELSE IF dosage_info # <<>>
                          THEN <<procedure_name \o Arrow \o JoinWith(Slash, dosage_info)>>
                          ELSE <<>>
         IN  ConcatAll([k \in 1..(Len(rows) - 1) |-> entry(rows[k + 1])])

CommentPrefix == <<"chuui", ":", " ">>

\* 'for item in item_elements: self._process_nested_items(item)'
RECURSIVE DosageFramesOf(_, _)
DosageFramesOf(t, item_elements) ==
    IF item_elements = <<>> THEN <<>>
    ELSE DosageProcessNestedItems(t, Head(item_elements), <<>>, 0)
         \o DosageFramesOf(t, Tail(item_elements))

\* A body that reads the tables and then walks the Items as well.
DoseAdminTextsBoth(dose) ==
    StrippedDetails(dose.details)
    \o ConcatAll([k \in 1..Len(dose.tbl_blocks) |->
                     ParseDosageTable(dose.tbl_blocks[k])])
    \o TextsOf(DosageFramesOf(dose.items, TopItems(dose.items)))

\* The body of 'for dose_admin in dose_admin_elements' of extract_dosages
DoseAdminTexts(dose) ==
    IF dose.tbl_blocks # <<>>
    THEN StrippedDetails(dose.details)
         \o ConcatAll([k \in 1..Len(dose.tbl_blocks) |->
                          ParseDosageTable(dose.tbl_blocks[k])])
         \o LET comments == StrippedDetails(dose.comments)
            IN  [k \in 1..Len(comments) |-> CommentPrefix \o comments[k]]
    ELSE IF TopItems(dose.items) # <<>>
    THEN TextsOf(DosageFramesOf(dose.items, TopItems(dose.items)))
    ELSE LET condition_header == ConditionOfHeaders(dose.headers)
             details == StrippedDetails(AllDetailTexts(dose))
         IN  [k \in 1..Len(details) |->
                 FormatDosageWithCondition(details[k], condition_header)]

\* The text of every element of the section, in document order (root.iter()).
ElementTexts(dose) ==
    dose.headers \o dose.details
    \o ConcatAll([k \in 1..Len(dose.items) |->
                     dose.items[k].headers \o dose.items[k].details])
    \o ConcatAll([k \in 1..Len(dose.tbl_blocks) |-> CellTexts(dose.tbl_blocks[k])])
    \o dose.comments

MentionsDosageLabel(text) == "youhou" \in Range(text)

\* The document-wide scan that ends extract_dosages
DosageScanTexts(element_texts) ==
    LET found == SelectSeq(element_texts, MentionsDosageLabel)
    IN  [k \in 1..Len(found) |-> FormatDosageWithCondition(Strip(found[k]), <<>>)]

\* extract_dosages: [raised, texts]
ExtractDosages(file_path, dose, element_texts) ==
    IF HasComplexDosageMethods(file_path, dose)
    THEN ExtractComplexDosages(dose)
    ELSE [raised |-> FALSE,
          texts |-> AppendUnique(
                        AppendUnique(<<>>, IF dose.info /\ dose.dose_admin
                                           THEN DoseAdminTexts(dose) ELSE <<>>),
                        DosageScanTexts(element_texts))]

\* The frames of the item walk extract_dosages makes, if it makes one.
ExtractDosagesFrames(file_path, dose) ==
    IF /\ ~HasComplexDosageMethods(file_path, dose)
       /\ dose.info /\ dose.dose_admin /\ dose.tbl_blocks = <<>>
    THEN DosageFramesOf(dose.items, TopItems(dose.items))
    ELSE <<>>

-----------------------------------------------------------------------------
(* SideEffectParser: the nested item walk and extract_side_effects *)

Serious == <<"juutoku">>
NonSerious == <<"hijuutoku">>

\* A bug the formatter could have: the condition put ahead of the severity.
FormatConditionFirst(text, condition_header, severity) ==
    IF severity # <<>>
    THEN IF condition_header # <<>> /\ Strip(condition_header) # <<>>
         THEN condition_header \o Colon \o severity \o Colon \o text
         ELSE severity \o Colon \o text
    ELSE IF condition_header # <<>> /\ Strip(condition_header) # <<>>
         THEN condition_header \o Colon \o text
         ELSE text

\* _format_side_effect_with_condition
FormatSideEffectWithCondition(text, condition_header, severity) ==
    IF severity # <<>>
    THEN IF condition_header # <<>> /\ Strip(condition_header) # <<>>
         THEN severity \o Colon \o condition_header \o Colon \o text
         ELSE severity \o Colon \o text
    ELSE IF condition_header # <<>> /\ Strip(condition_header) # <<>>
         THEN condition_header \o Colon \o text
         ELSE text

\* _extract_side_effect_name_and_description: <<name, description>>
ExtractSideEffectNameAndDescription(header_text, detail_text) ==
    IF header_text # <<>> /\ detail_text # <<>>
    THEN <<Strip(header_text), Strip(detail_text)>>
    ELSE IF header_text # <<>> /\ detail_text = <<>>
    THEN <<Strip(header_text), <<>> >>
    ELSE IF header_text = <<>> /\ detail_text # <<>>
    THEN << <<>>, Strip(detail_text)>>
    ELSE << <<>>, <<>> >>

\* _process_nested_items, the if/elif chain that builds combined_condition
SideEffectCombine(parent_condition, current_condition) ==
    IF parent_condition # <<>> /\ current_condition # <<>>
    THEN parent_condition \o Colon \o current_condition
    ELSE IF parent_condition # <<>> THEN parent_condition
    ELSE IF current_condition # <<>> THEN current_condition
    ELSE <<>>

\* header_text: the stripped text of the first direct Header, '' without one
HeaderText(t, i) ==
    IF t[i].headers # <<>> THEN Strip(Head(t[i].headers)) ELSE <<>>

\* The text appended for one Detail that passed the emptiness test.
SideEffectDetailText(header_text, detail_text, combined_condition, severity) ==
    LET nd == ExtractSideEffectNameAndDescription(header_text, detail_text)
        side_effect_name == nd[1]
        description == nd[2]
    IN  IF severity = Serious /\ side_effect_name # <<>> /\ description # <<>>
        THEN Serious \o Colon \o side_effect_name \o Colon \o description
        ELSE IF severity = Serious /\ side_effect_name # <<>>
        THEN Serious \o Colon \o side_effect_name
        ELSE IF header_text # <<>> /\ detail_text # <<>>
        THEN FormatSideEffectWithCondition(header_text \o Colon \o detail_text,
                                           combined_condition, severity)
        ELSE FormatSideEffectWithCondition(detail_text, combined_condition, severity)

\* The text appended for an Item with a Header and no Detail element.
SideEffectHeaderOnlyText(header_text, combined_condition, severity) ==
    IF severity = Serious
    THEN Serious \o Colon \o header_text
    ELSE FormatSideEffectWithCondition(header_text, combined_condition, severity)

RECURSIVE SideEffectProcessNestedItems(_, _, _, _, _)
RECURSIVE SideEffectProcessEach(_, _, _, _, _)
SideEffectProcessNestedItems(t, i, parent_condition, severity, from) ==
    LET current_condition == ExtractConditionHeader(t, i)
        combined_condition == SideEffectCombine(parent_condition, current_condition)
        header_text == HeaderText(t, i)
        direct_detail_elements == t[i].details
        details == StrippedDetails(direct_detail_elements)
        from_details == [k \in 1..Len(details) |->
            SideEffectDetailText(header_text, details[k], combined_condition, severity)]
        header_only ==
            IF header_text # <<>> /\ direct_detail_elements = <<>>
            THEN <<SideEffectHeaderOnlyText(header_text, combined_condition, severity)>>
            ELSE <<>>
        frame == [item |-> i, from |-> from,
                  parent_condition |-> parent_condition,
                  current_condition |-> current_condition,
                  combined_condition |-> combined_condition,
                  emitted |-> from_details \o header_only]
    IN  <<frame>>
        \o SideEffectProcessEach(t, Children(t, i), combined_condition, severity, i)

SideEffectProcessEach(t, nested_items, combined_condition, severity, from) ==
    IF nested_items = <<>> THEN <<>>
    ELSE SideEffectProcessNestedItems(t, Head(nested_items), combined_condition,
                                      severity, from)
         \o SideEffectProcessEach(t, Tail(nested_items), combined_condition,
                                  severity, from)

\* 'for item in item_elements: self._process_nested_items(item, "", severity)':
\* the frames of every call, the extractor's calls and the nested ones.
RECURSIVE SideEffectFramesOf(_, _, _)
SideEffectFramesOf(t, item_elements, severity) ==
    IF item_elements = <<>> THEN <<>>
    ELSE SideEffectProcessNestedItems(t, Head(item_elements), <<>>, severity, 0)
         \o SideEffectFramesOf(t, Tail(item_elements), severity)

\* The Instructions loop of extract_side_effects: for every instruction Item,
\* every AdverseReactionDescription Detail, with the Item's condition header.
RECURSIVE InstructionTexts(_, _)
InstructionTexts(instruction_items, reaction_details) ==
    IF instruction_items = <<>> THEN <<>>
    ELSE LET condition_header == ConditionOfHeaders(Head(instruction_items))
             details == StrippedDetails(reaction_details)
         IN  [k \in 1..Len(details) |->
                 FormatSideEffectWithCondition(details[k], condition_header, NonSerious)]
             \o InstructionTexts(Tail(instruction_items), reaction_details)

\* extract_side_effects on a document whose AdverseEvents holds one section:
\* SeriousAdverseEvents with the Items t, or OtherAdverseEvents with the
\* instruction Items, the reaction Details and the Items t under OtherAdverse.
ExtractSideEffectsFrames(sec, t) ==
    IF sec = "SeriousAdverseEvents" THEN SideEffectFramesOf(t, AllItems(t), Serious)
    ELSE IF sec = "OtherAdverseEvents" THEN SideEffectFramesOf(t, AllItems(t), NonSerious)
    ELSE <<>>

ExtractSideEffects(sec, t, instruction_items, reaction_details) ==
    IF sec = "SeriousAdverseEvents"
    THEN AppendUnique(<<>>, TextsOf(ExtractSideEffectsFrames(sec, t)))
    ELSE IF sec = "OtherAdverseEvents"
    THEN AppendUnique(AppendUnique(<<>>, InstructionTexts(instruction_items,
                                                          reaction_details)),
                      TextsOf(ExtractSideEffectsFrames(sec, t)))
    ELSE <<>>

-----------------------------------------------------------------------------
(* SpecDedup: remove_duplicates_by_key applied to bounded lists of dicts *)

\* Dicts as the extractors build them ({'text': ...}), with a second field
\* that tells two dicts of the same text apart, and one dict without 'text'.
ItemSet ==
    { [text |-> <<"a">>],
      [text |-> <<"a">>, note |-> <<"n">>],
      [text |-> <<"b">>, note |-> <<"n">>],
      [note |-> <<"m">>] }

KeySet == {"text", "note"}

WalkIdle ==
    /\ section = "none"
    /\ tree = <<>>
    /\ instructions = <<>>
    /\ reactions = <<>>
    /\ calls = <<>>
    /\ records = <<>>

HeaderIdle == returned = <<>>

ClinicalIdle ==
    /\ doc = <<>>
    /\ extractions = <<>>
    /\ clinical = <<>>
    /\ medicines = <<>>

DosageIdle ==
    /\ parser_path = ""
    /\ dosage_section = <<>>
    /\ complex = "unknown"
    /\ grown_section = <<>>
    /\ complex_grown = "unknown"
    /\ dosage_records = <<>>

TableIdle ==
    /\ table_rows = <<>>
    /\ bsa_entries = <<>>
    /\ table_entries = <<>>

AdditiveIdle ==
    /\ raw_document = <<>>
    /\ additive_brand = "None"
    /\ raw_readable = FALSE
    /\ recovered = <<>>
    /\ additives_found = <<>>

GeneratorIdle ==
    /\ generator_brand = <<>>
    /\ generator_info = <<>>
    /\ generator_statistics = <<>>

BatchIdle ==
    /\ directory = <<>>
    /\ batch_size = 0
    /\ unique_files = <<>>
    /\ batches = <<>>
    /\ worker_results = <<>>
    /\ collected = <<>>
    /\ all_medicines = <<>>
    /\ run_statistics = <<>>
    /\ candidates = <<0>>

LaterIdle == TableIdle /\ AdditiveIdle /\ GeneratorIdle /\ BatchIdle

InitDedup ==
    /\ pc = "start"
    /\ items \in SeqsUpTo(ItemSet, MaxLen)
    /\ key \in KeySet
    /\ result = <<>>
    /\ result2 = <<>>
    /\ WalkIdle
    /\ HeaderIdle
    /\ ClinicalIdle
    /\ DosageIdle
    /\ LaterIdle

\* result = remove_duplicates_by_key(items, key)
RemoveDuplicates ==
    /\ pc = "start"
    /\ result' = RemoveDuplicatesByKey(items, key)
    /\ pc' = "once"
    /\ UNCHANGED <<items, key, result2, walkVars, headerVars, clinicalVars, dosageVars, laterVars>>

\* result2 = remove_duplicates_by_key(result, key)
RemoveDuplicatesAgain ==
    /\ pc = "once"
    /\ result2' = RemoveDuplicatesByKey(result, key)
    /\ pc' = "twice"
    /\ UNCHANGED <<items, key, result, walkVars, headerVars, clinicalVars, dosageVars, laterVars>>

NextDedup == RemoveDuplicates \/ RemoveDuplicatesAgain

SpecDedup == InitDedup /\ [][NextDedup]_vars

-----------------------------------------------------------------------------
(* SpecWalk: extract_dosages and extract_side_effects on a section of Items *)

\* A plain header, a bracketed qualifier and a one-character header, which
\* extract_condition_header rejects.
PlainHeader == <<"s", "k">>
BracketHeader == <<"<", "k", "o", "u", ">">>
ShortHeader == <<"x">>

HeaderChoices == { <<>>, <<PlainHeader>>, <<BracketHeader>>, <<ShortHeader>> }
DetailChoices == { <<>>, << <<"d">> >> }

\* The records extract_indications appends for Item i of the section's list:
\* the first Header and the first direct Detail, else the Details of every
\* Item nested in it, else the Header alone.
IndicationsOfItem(t, i) ==
    LET header_text ==
            IF t[i].headers # <<>> /\ Head(t[i].headers) # <<>>
            THEN Strip(Head(t[i].headers)) ELSE <<>>
        nested_detail_elements ==
            ConcatAll([k \in 1..(SubtreeEnd(t, i) - i) |-> t[i + k].details])
        combined_text(detail_text) ==
            IF header_text # <<>> THEN header_text \o Colon \o detail_text
            ELSE detail_text
    IN  IF t[i].details # <<>> /\ Head(t[i].details) # <<>>
        THEN <<combined_text(Strip(Head(t[i].details)))>>
        ELSE IF nested_detail_elements # <<>>
        THEN LET details == StrippedDetails(nested_detail_elements)
             IN  [k \in 1..Len(details) |-> combined_text(details[k])]
        ELSE IF header_text # <<>> THEN <<header_text>>
        ELSE <<>>

\* extract_indications for an IndicationsOrEfficacy that holds a SimpleList
\* of the Items t and no Detail of its own.
ExtractIndications(t) ==
    LET item_elements == TopItems(t)
        found == ConcatAll([k \in 1..Len(item_elements) |->
                               IndicationsOfItem(t, item_elements[k])])
        indications == [k \in 1..Len(found) |-> [text |-> found[k]]]
        unique == RemoveDuplicatesByKey(indications, "text")
    IN  [k \in 1..Len(unique) |-> unique[k].text]

\* The depths of n Items in document order: the first Item is at depth 1,
\* every later one at most one level below the Item before it.
DepthSeqs(n) ==
    { s \in [1..n -> 1..n] :
        \A k \in 1..n : s[k] <= (IF k = 1 THEN 1 ELSE s[k - 1] + 1) }

ForestOf(depths, hs, ds) ==
    [k \in DOMAIN depths |->
        [depth |-> depths[k], headers |-> hs[k], details |-> ds[k]]]

\* tree is a section of at most n Items
TreeUpTo(n) ==
    \E m \in 0..n :
        \E depths \in DepthSeqs(m), hs \in [1..m -> HeaderChoices],
           ds \in [1..m -> DetailChoices] :
            tree = ForestOf(depths, hs, ds)

\* A DoseAdmin that holds nothing but a SimpleList of the Items t.
ItemsOnlyDose(t) ==
    [info |-> TRUE, dose_admin |-> TRUE, headers |-> <<>>, details |-> <<>>,
     items |-> t, tbl_blocks |-> <<>>, comments |-> <<>>]

FilePath == "f.xml"

DedupIdle ==
    /\ items = <<>>
    /\ key = "text"
    /\ result = <<>>
    /\ result2 = <<>>

InitWalk ==
    /\ pc = "start"
    /\ section \in {"DoseAdmin", "SeriousAdverseEvents", "OtherAdverseEvents",
                    "IndicationsOrEfficacy"}
    /\ \/ /\ TreeUpTo(MaxItems)
          /\ instructions = <<>>
          /\ reactions = <<>>
       \/ /\ section = "OtherAdverseEvents"
          /\ TreeUpTo(1)
          /\ instructions \in { << <<BracketHeader>> >>, << <<>> >> }
          /\ reactions \in { << <<"r">> >>, << <<"r">>, <<" ">> >> }
    /\ calls = <<>>
    /\ records = <<>>
    /\ DedupIdle
    /\ HeaderIdle
    /\ ClinicalIdle
    /\ DosageIdle
    /\ LaterIdle

\* dosages = DosageParser(root, file_path).extract_dosages()
RunExtractDosages ==
    /\ pc = "start"
    /\ section = "DoseAdmin"
    /\ LET dose == ItemsOnlyDose(tree)
           got == ExtractDosages(FilePath, dose, ElementTexts(dose))
       IN  /\ records' = got.texts
           /\ calls' = ExtractDosagesFrames(FilePath, dose)
           /\ pc' = IF got.raised THEN "raised" ELSE "done"
    /\ UNCHANGED <<section, tree, instructions, reactions, dedupVars, headerVars, clinicalVars, dosageVars, laterVars>>

\* side_effects = SideEffectParser(root).extract_side_effects()
RunExtractSideEffects ==
    /\ pc = "start"
    /\ section \in {"SeriousAdverseEvents", "OtherAdverseEvents"}
    /\ records' = ExtractSideEffects(section, tree, instructions, reactions)
    /\ calls' = ExtractSideEffectsFrames(section, tree)
    /\ pc' = "done"
    /\ UNCHANGED <<section, tree, instructions, reactions, dedupVars, headerVars, clinicalVars, dosageVars, laterVars>>

\* indications = IndicationParser(root).extract_indications()
RunExtractIndications ==
    /\ pc = "start"
    /\ section = "IndicationsOrEfficacy"
    /\ records' = ExtractIndications(tree)
    /\ calls' = <<>>
    /\ pc' = "done"
    /\ UNCHANGED <<section, tree, instructions, reactions, dedupVars, headerVars, clinicalVars, dosageVars, laterVars>>

NextWalk == RunExtractDosages \/ RunExtractSideEffects \/ RunExtractIndications

SpecWalk == InitWalk /\ [][NextWalk]_vars

-----------------------------------------------------------------------------
(* SpecHeader: extract_condition_header on one Item *)

MaxHeaders == 2

Repeat(c, n) == [k \in 1..n |-> c]

\* Header texts on both sides of every threshold of the function: empty and
\* blank, one and two characters, 199 and 200 characters, bracketed content
\* of two and of three characters, padded content, and a lone delimiter.
HeaderTexts ==
    { <<>>, <<" ">>, ShortHeader, PlainHeader, <<" ", "s", "k", " ">>,
      Repeat("a", MaxHeaderLen - 1), Repeat("a", MaxHeaderLen),
      <<"<", "k", "o", ">">>, BracketHeader, <<"<", " ", "k", "o", " ", ">">>,
      <<"<", "k">> }

\* What the Item holds besides its Headers: nothing, or a SimpleList with
\* one Item that has a Header of its own.
NestedChoices ==
    { <<>>,
      << [depth |-> 2, headers |-> <<PlainHeader>>, details |-> <<>>] >>,
      << [depth |-> 2, headers |-> <<BracketHeader>>, details |-> <<>>] >> }

InitHeader ==
    /\ pc = "start"
    /\ section = "none"
    /\ \E hs \in SeqsUpTo(HeaderTexts, MaxHeaders), nested \in NestedChoices :
          tree = << [depth |-> 1, headers |-> hs, details |-> <<>>] >> \o nested
    /\ instructions = <<>>
    /\ reactions = <<>>
    /\ calls = <<>>
    /\ records = <<>>
    /\ returned = <<>>
    /\ DedupIdle
    /\ ClinicalIdle
    /\ DosageIdle
    /\ LaterIdle

\* condition = extract_condition_header(item, namespace)
RunExtractConditionHeader ==
    /\ pc = "start"
    /\ section = "none"
    /\ tree # <<>>
    /\ returned' = ExtractConditionHeader(tree, 1)
    /\ pc' = "xml_utils"
    /\ UNCHANGED <<dedupVars, walkVars, clinicalVars, dosageVars, laterVars>>

\* condition = SideEffectParser(root)._extract_condition_header(item)
RunSideEffectExtractConditionHeader ==
    /\ pc = "start"
    /\ section = "none"
    /\ tree # <<>>
    /\ returned' = SideEffectExtractConditionHeader(tree, 1)
    /\ pc' = "side_effect"
    /\ UNCHANGED <<dedupVars, walkVars, clinicalVars, dosageVars, laterVars>>

NextHeader == RunExtractConditionHeader \/ RunSideEffectExtractConditionHeader

SpecHeader == InitHeader /\ [][NextHeader]_vars

-----------------------------------------------------------------------------
(* CompositionParser                                                        *)
(*                                                                          *)
(* A CompositionTable is a record:                                          *)
(*   ref        the ref of the CompositionForBrand around it, "" if none    *)
(*   contained  its ContainedAmount elements: name (ActiveIngredientName)   *)
(*              and value (ValueAndUnit)                                    *)
(*   additives  its InfoIndividualAdditive elements: name, value            *)
(*   others     its OtherComposition elements: category, title, detail      *)
(* An element that is absent and one without text are read alike            *)
(* ('elem.text or ""'), so both are the empty text here.  The texts carry   *)
(* no markup, and the tables no ListOfAdditives.                            *)

None == "None"

\* _clean_text
CleanText(text) == Strip(Remove(text, "ENTER"))

\* _remove_duplicates for one category: the key is the whole entry
RECURSIVE CompositionRemoveDuplicates(_, _)
CompositionRemoveDuplicates(entries, seen) ==
    IF entries = <<>> THEN <<>>
    ELSE IF Head(entries) \in seen
    THEN CompositionRemoveDuplicates(Tail(entries), seen)
    ELSE <<Head(entries)>>
         \o CompositionRemoveDuplicates(Tail(entries), seen \cup {Head(entries)})

\* The CompositionTable elements extract_compositions reads for brand_id
CompositionElements(tables, brand_id) ==
    IF brand_id # None /\ brand_id # ""
    THEN SelectSeq(tables, LAMBDA t : t.ref = brand_id)
    ELSE tables

ActiveIngredientsOf(table) ==
    LET found == [k \in 1..Len(table.contained) |->
                     [ingredient_name |-> CleanText(table.contained[k].name),
                      value_and_unit |-> CleanText(table.contained[k].value)]]
    IN  SelectSeq(found, LAMBDA e : e.ingredient_name # <<>>)

AdditivesOf(table) ==
    LET found == [k \in 1..Len(table.additives) |->
                     [individual_additive |-> CleanText(table.additives[k].name),
                      value_and_unit |-> CleanText(table.additives[k].value)]]
    IN  SelectSeq(found, LAMBDA e : e.individual_additive # <<>>)

OtherComponentsOf(table) ==
    LET found == [k \in 1..Len(table.others) |->
                     LET category_name == CleanText(table.others[k].category)
                         content_title == CleanText(table.others[k].title)
                         content_detail == CleanText(table.others[k].detail)
                     IN  IF content_title = <<>> /\ content_detail # <<>>
                         THEN [category_name |-> category_name,
                               content_title |-> content_detail,
                               content_detail |-> <<>>]
                         ELSE [category_name |-> category_name,
                               content_title |-> content_title,
                               content_detail |-> content_detail]]
    IN  SelectSeq(found, LAMBDA e : e.content_title # <<>>)

\* The entries found in the tables els, table after table
ActiveIngredientsIn(els) ==
    ConcatAll([k \in 1..Len(els) |-> ActiveIngredientsOf(els[k])])
AdditivesIn(els) ==
    ConcatAll([k \in 1..Len(els) |-> AdditivesOf(els[k])])
OtherComponentsIn(els) ==
    ConcatAll([k \in 1..Len(els) |-> OtherComponentsOf(els[k])])

\* extract_compositions
ExtractCompositions(tables, brand_id) ==
    LET composition_elements == CompositionElements(tables, brand_id)
    IN  [active_ingredients |->
             CompositionRemoveDuplicates(ActiveIngredientsIn(composition_elements), {}),
         additives |->
             CompositionRemoveDuplicates(AdditivesIn(composition_elements), {}),
         other_components |->
             CompositionRemoveDuplicates(OtherComponentsIn(composition_elements), {})]

ColonSpace == <<":", " ">>
AdditiveLabel == <<"tenkabutsu">>    \* stands for the three signs of 'additive'

\* parse_compositions: the structured data rendered to texts
ParseCompositions(tables, brand_id) ==
    LET structured_data == ExtractCompositions(tables, brand_id)
        ingredients == structured_data.active_ingredients
        additives == structured_data.additives
        others == structured_data.other_components
        with_detail(text, other) ==
            IF other.content_detail # <<>>
            THEN text \o ColonSpace \o other.content_detail
            ELSE text
    IN  [k \in 1..Len(ingredients) |->
            ingredients[k].ingredient_name \o ColonSpace
            \o ingredients[k].value_and_unit]
        \o [k \in 1..Len(additives) |->
               IF additives[k].value_and_unit # <<>>
               THEN AdditiveLabel \o ColonSpace \o additives[k].individual_additive
                    \o ColonSpace \o additives[k].value_and_unit
               ELSE AdditiveLabel \o ColonSpace \o additives[k].individual_additive]
        \o [k \in 1..Len(others) |->
               IF others[k].category_name # <<>>
               THEN with_detail(others[k].category_name \o ColonSpace
                                \o others[k].content_title, others[k])
               ELSE with_detail(others[k].content_title, others[k])]

-----------------------------------------------------------------------------
(* SharedXMLProcessor                                                       *)
(*                                                                          *)
(* A document is a record:                                                  *)
(*   basic    its basic information (classification, form, manufacturer,    *)
(*            file name), copied as it is into every entry                  *)
(*   brands   its DetailBrandName elements: the id attribute, and the      *)
(*            texts of the product_name and yj_code leaves ('' without one)  *)
(*   dose     its dosage section                                            *)
(*   adverse  its AdverseEvents: section, tree, instructions, reactions     *)
(*   tables   its CompositionTable elements                                 *)
(* It has no IndicationsOrEfficacy, ContraIndications, Warnings,            *)
(* precautions, combinations, DrugInteractions or                           *)
(* PhyschemOfActIngredientsSection element: the extractors of those find    *)
(* nothing and return the empty list, and no entry of                       *)
(* parse_active_ingredients survives the filter of extract_clinical_info.   *)

NoSection == <<>>

Categories ==
    <<"indications", "dosage", "contraindications", "warnings",
      "side_effects", "interactions", "compositions">>

\* MedicineParser._safe_find_text followed by "or ''": the trimmed text of
\* the leaf, '' for a leaf that is absent or empty
SafeFindText(text) == Strip(text)

\* MedicineParser.extract_all_brands
ExtractAllBrands(d) ==
    LET found == [k \in 1..Len(d.brands) |->
                     [product_name |-> SafeFindText(d.brands[k].product_name),
                      yj_code |-> SafeFindText(d.brands[k].yj_code)]]
    IN  SelectSeq(found, LAMBDA b : b.product_name # <<>> \/ b.yj_code # <<>>)

\* _extract_brand_id; brand_info is <<>> for None, else <<the brand dict>>
ExtractBrandId(d, brand_info) ==
    IF brand_info = <<>> THEN None
    ELSE IF brand_info[1].yj_code = <<>> THEN None
    ELSE LET hits == SelectSeq(d.brands,
                               LAMBDA b : b.yj_code = brand_info[1].yj_code)
         IN  IF hits = <<>> THEN None ELSE hits[1].id

\* The text of every element of the document, in document order.
DocElementTexts(d) ==
    ElementTexts(d.dose)
    \o ConcatAll([k \in 1..Len(d.adverse.tree) |->
                     d.adverse.tree[k].headers \o d.adverse.tree[k].details])
    \o ConcatAll([k \in 1..Len(d.tables) |->
                     ConcatAll([n \in 1..Len(d.tables[k].contained) |->
                                   <<d.tables[k].contained[n].name,
                                     d.tables[k].contained[n].value>>])])

\* Extractors that keep the composition texts of the call in the dosage
\* list: the dosage records then depend on the brand of the call.
ExtractorsSharingRecords(d, brand_info, dosages) ==
    [raised |-> dosages.raised,
     brand_id |-> ExtractBrandId(d, brand_info),
     indications |-> <<>>,
     dosage |-> dosages.texts
                \o ParseCompositions(d.tables, ExtractBrandId(d, brand_info)),
     contraindications |-> <<>>,
     warnings |-> <<>>,
     side_effects |->
         ExtractSideEffects(d.adverse.section, d.adverse.tree,
                            d.adverse.instructions, d.adverse.reactions),
     interactions |-> <<>>,
     compositions |->
         ParseCompositions(d.tables, ExtractBrandId(d, brand_info))]

\* The extractors extract_clinical_info calls after extract_dosages has
\* returned dosages: what each extractor returned, and whether one raised.
\* extract_dosages is called unguarded; when it raises, the extractors after
\* it are not reached.
ExtractorsAfterDosages(d, brand_info, dosages) ==
    IF dosages.raised
    THEN [raised |-> TRUE, brand_id |-> None,
          indications |-> NoSection, dosage |-> <<>>,
          contraindications |-> <<>>, warnings |-> <<>>,
          side_effects |-> <<>>, interactions |-> <<>>,
          compositions |-> <<>>]
    ELSE [raised |-> FALSE,
          brand_id |-> ExtractBrandId(d, brand_info),
          indications |-> NoSection,
          dosage |-> dosages.texts,
          contraindications |-> NoSection,
          warnings |-> NoSection,
          side_effects |->
              ExtractSideEffects(d.adverse.section, d.adverse.tree,
                                 d.adverse.instructions, d.adverse.reactions),
          interactions |-> NoSection,
          compositions |->
              ParseCompositions(d.tables, ExtractBrandId(d, brand_info))]

\* The extractor calls of extract_clinical_info, in its order.
RunExtractors(d, brand_info) ==
    ExtractorsAfterDosages(d, brand_info,
        ExtractDosages(FilePath, d.dose, DocElementTexts(d)))

\* The dict extract_clinical_info builds from the lists got: the categories
\* whose list is not empty, each without the empty texts.
ClinicalInfoOf(got) ==
    LET present == { c \in Range(Categories) : got[c] # <<>> }
    IN  [raised |-> got.raised,
         extracted |-> got,
         info |-> IF got.raised THEN <<>>
                  ELSE [c \in present |-> SelectSeq(got[c], LAMBDA t : t # <<>>)]]

\* extract_clinical_info: [raised, info], and what the extractors returned
ExtractClinicalInfo(d, brand_info) == ClinicalInfoOf(RunExtractors(d, brand_info))

\* The brand_info of each extract_clinical_info call of process_all_brands
BrandCalls(d) ==
    LET all_brands == ExtractAllBrands(d)
    IN  IF all_brands = <<>> THEN << <<>> >>
        ELSE [k \in 1..Len(all_brands) |-> <<all_brands[k]>>]

\* The entries process_all_brands builds from the clinical_info got[k] of
\* each call, and the extractor calls made before it returns or raises.
MedicinesOf(d, brand_calls, got) ==
    LET raising == { k \in 1..Len(got) : got[k].raised }
        reached == IF raising = {} THEN Len(got)
                   ELSE CHOOSE k \in raising : \A m \in raising : k <= m
    IN  [raised |-> raising # {},
         extracted |-> [k \in 1..reached |-> got[k].extracted],
         medicines |->
             IF raising # {} THEN <<>>
             ELSE [k \in 1..Len(got) |->
                      [yj_code |-> IF brand_calls[k] = <<>> THEN <<>>
                                   ELSE brand_calls[k][1].yj_code,
                       product_name |-> IF brand_calls[k] = <<>> THEN <<>>
                                        ELSE brand_calls[k][1].product_name,
                       basic |-> d.basic,
                       clinical_info |-> got[k].info]]]

ClinicalInfoPerCall(d, brand_calls) ==
    [k \in 1..Len(brand_calls) |-> ExtractClinicalInfo(d, brand_calls[k])]

\* process_all_brands: [raised, medicines], and what the extractors returned
ProcessAllBrands(d) ==
    MedicinesOf(d, BrandCalls(d), ClinicalInfoPerCall(d, BrandCalls(d)))

\* The loop of _process_clinical_info over the records of one parser: the
\* texts that are not empty, each at its first occurrence
RECURSIVE UnseenTexts(_, _)
UnseenTexts(texts, seen) ==
    IF texts = <<>> THEN <<>>
    ELSE IF Head(texts) = <<>> \/ Head(texts) \in seen
    THEN UnseenTexts(Tail(texts), seen)
    ELSE <<Head(texts)>> \o UnseenTexts(Tail(texts), seen \cup {Head(texts)})

\* The brand_id _process_clinical_info looks up for brand_info
GeneratorBrandId(d, brand_info) ==
    IF brand_info = <<>> THEN None
    ELSE IF brand_info[1].yj_code = <<>> THEN None
    ELSE LET brand_elements == d.brands
             found == { k \in DOMAIN brand_elements :
                          brand_elements[k].yj_code = brand_info[1].yj_code }
         IN  IF found = {} THEN None
             ELSE brand_elements[CHOOSE k \in found : \A m \in found : k <= m].id

\* parse_dosages: extract_dosages on a tree of its own, [] when it raises
ParseDosages(d) ==
    LET dosages == ExtractDosages(FilePath, d.dose, DocElementTexts(d))
    IN  IF dosages.raised THEN <<>> ELSE dosages.texts

\* What the parse_ functions return to _process_clinical_info
ParsedCategories(d, brand_info) ==
    [indications |-> NoSection,
     dosage |-> ParseDosages(d),
     contraindications |-> NoSection,
     warnings |-> NoSection,
     side_effects |->
         ExtractSideEffects(d.adverse.section, d.adverse.tree,
                            d.adverse.instructions, d.adverse.reactions),
     interactions |-> NoSection,
     compositions |-> ParseCompositions(d.tables, GeneratorBrandId(d, brand_info))]

\* _process_clinical_info: the clinical_info it sets, and what it adds to
\* the statistics
ProcessClinicalInfo(d, brand_info) ==
    LET parsed == ParsedCategories(d, brand_info)
        texts == [c \in Range(Categories) |-> UnseenTexts(parsed[c], {})]
        present == { c \in Range(Categories) : texts[c] # <<>> }
    IN  [clinical_info |-> [c \in present |-> texts[c]],
         statistics |->
             [vectors_count |-> [c \in Range(Categories) |-> Len(texts[c])],
              medicines_with_clinical_info |->
                  [c \in Range(Categories) |->
                      IF c \in present THEN 1 ELSE 0]]]

-----------------------------------------------------------------------------
(* SpecClinical: extract_clinical_info and process_all_brands on a document *)

NoDose ==
    [info |-> FALSE, dose_admin |-> FALSE, headers |-> <<>>, details |-> <<>>,
     items |-> <<>>, tbl_blocks |-> <<>>, comments |-> <<>>]

\* A DoseAdmin that holds nothing but the Details ds.
DetailsOnlyDose(ds) == [NoDose EXCEPT !.info = TRUE, !.dose_admin = TRUE, !.details = ds]

\* Dosage texts: a premise ahead of the marker and two method labels; one
\* label met twice; the field label the document-wide scan looks for.
TwoMethods ==
    <<"x", " ", "ENTER", "A", "m", "|", "x", " ", "B", "m", "|", "y">>
RepeatedMethod ==
    <<"A", "m", "|", "x", " ", "B", "m", "|", "y", " ", "A", "m", "|", "x">>
FieldLabel == <<"youhou", " ">>
\* A text that mentions the label of the side-effect field ("fukusayou"
\* stands for its three signs).
SideEffectLabel == <<"fukusayou">>

DoseChoices ==
    { NoDose,
      DetailsOnlyDose(<< <<"d">>, <<"d">> >>),
      DetailsOnlyDose(<< FieldLabel >>),
      ItemsOnlyDose(<< [depth |-> 1, headers |-> <<PlainHeader>>,
                        details |-> << <<"d">> >>] >>),
      DetailsOnlyDose(<< TwoMethods >>),
      DetailsOnlyDose(<< RepeatedMethod >>),
      \* an InfoDoseAdmin with a Detail of its own and no DoseAdmin
      [NoDose EXCEPT !.info = TRUE, !.details = << TwoMethods >>],
      \* a Comment that mentions the dosage label, and no table block
      [DetailsOnlyDose(<< <<"d">> >>) EXCEPT !.comments = << FieldLabel >>],
      \* two method labels, and a Comment that mentions the dosage label
      [DetailsOnlyDose(<< TwoMethods >>) EXCEPT !.comments = << FieldLabel >>],
      \* a Detail that mentions the side-effect label
      DetailsOnlyDose(<< SideEffectLabel >>) }

AdverseChoices ==
    { [section |-> "none", tree |-> <<>>, instructions |-> <<>>, reactions |-> <<>>],
      [section |-> "SeriousAdverseEvents",
       tree |-> << [depth |-> 1, headers |-> <<PlainHeader>>,
                    details |-> << <<"d">> >>] >>,
       instructions |-> <<>>, reactions |-> <<>>],
      [section |-> "OtherAdverseEvents",
       tree |-> << [depth |-> 1, headers |-> <<>>, details |-> << <<"d">> >>] >>,
       instructions |-> << <<BracketHeader>> >>, reactions |-> << <<"r">> >>] }

\* The table of brand B1: an ingredient without an amount, the same
\* ingredient with one, an additive, and another component whose category
\* and title read like that ingredient and its amount.
TableB1 ==
    [ref |-> "B1",
     contained |-> << [name |-> <<"a">>, value |-> <<>>],
                      [name |-> <<"a">>, value |-> <<"b">>] >>,
     additives |-> << [name |-> <<"c">>, value |-> <<>>] >>,
     others |-> << [category |-> <<"a">>, title |-> <<"b">>, detail |-> <<>>] >>]

TableB2 ==
    [ref |-> "B2",
     contained |-> << [name |-> <<"a">>, value |-> <<"b">>],
                      [name |-> <<"a">>, value |-> <<"b">>] >>,
     additives |-> << [name |-> <<"c">>, value |-> <<"e">>] >>,
     others |-> << [category |-> <<>>, title |-> <<>>, detail |-> <<"b">>] >>]

\* The table of brand B1 outside every CompositionForBrand that names a brand.
SharedTable == [TableB1 EXCEPT !.ref = ""]

TableChoices == { <<>>, <<TableB1>>, <<TableB1, TableB2>>, <<SharedTable>> }

BrandB1 == [id |-> "B1", product_name |-> <<"p">>, yj_code |-> <<"1">>]
BrandB2 == [id |-> "B2", product_name |-> <<"q">>, yj_code |-> <<"2">>]
Unnamed == [id |-> "B1", product_name |-> <<>>, yj_code |-> <<>>]
\* Brand B2 with whitespace around the text of its code leaf, and a brand
\* B2 that carries the code of brand B1.
PaddedB2 == [BrandB2 EXCEPT !.yj_code = <<" ", "2", " ">>]
TwinB2 == [BrandB2 EXCEPT !.yj_code = <<"1">>]

BrandChoices ==
    { <<>>, <<BrandB1>>, <<BrandB1, BrandB2>>, <<Unnamed>>,
      <<BrandB1, PaddedB2>>, <<BrandB1, TwinB2>> }

InitClinical ==
    /\ pc = "start"
    /\ \E dose \in DoseChoices, adverse \in AdverseChoices,
          tables \in TableChoices, brands \in BrandChoices :
          doc = [basic |-> "basic", brands |-> brands, dose |-> dose,
                 adverse |-> adverse, tables |-> tables]
    /\ extractions = <<>>
    /\ clinical = <<>>
    /\ medicines = <<>>
    /\ DedupIdle
    /\ WalkIdle
    /\ HeaderIdle
    /\ DosageIdle
    /\ LaterIdle

ClinicalInfoReturned(got) ==
    /\ extractions' = << got.extracted >>
    /\ clinical' = got.info
    /\ pc' = IF got.raised THEN "raised" ELSE "returned"

\* clinical_info = SharedXMLProcessor(file_path).extract_clinical_info(brand)
RunExtractClinicalInfo ==
    /\ pc = "start"
    /\ \E brand_info \in { <<>> } \cup Range(BrandCalls(doc)) :
          ClinicalInfoReturned(ExtractClinicalInfo(doc, brand_info))
    /\ UNCHANGED <<doc, medicines, dedupVars, walkVars, headerVars, dosageVars, laterVars>>

MedicinesReturned(got) ==
    /\ extractions' = got.extracted
    /\ medicines' = got.medicines
    /\ pc' = IF got.raised THEN "raised" ELSE "listed"

\* medicines = SharedXMLProcessor(file_path).process_all_brands()
RunProcessAllBrands ==
    /\ pc = "start"
    /\ MedicinesReturned(ProcessAllBrands(doc))
    /\ UNCHANGED <<doc, clinical, dedupVars, walkVars, headerVars, dosageVars, laterVars>>

\* medicine_data = PMDAJSONGenerator(...)._process_clinical_info(
\*                     medicine_data, file_path, brand)
RunProcessClinicalInfo ==
    /\ pc = "start"
    /\ \E brand_info \in { <<>> } \cup Range(BrandCalls(doc)) :
          LET got == ProcessClinicalInfo(doc, brand_info)
          IN  /\ generator_brand' = brand_info
              /\ generator_info' = got.clinical_info
              /\ generator_statistics' = got.statistics
    /\ pc' = "processed"
    /\ UNCHANGED <<doc, extractions, clinical, medicines, dedupVars, walkVars,
                   headerVars, dosageVars, tableVars, additiveVars, batchVars>>

NextClinical ==
    RunExtractClinicalInfo \/ RunProcessAllBrands \/ RunProcessClinicalInfo

SpecClinical == InitClinical /\ [][NextClinical]_vars

-----------------------------------------------------------------------------
(* SpecDosage: DosageParser on one dosage section                           *)

MaxDetails == 2      \* most Detail elements directly in the section
MaxTables == 2       \* most TblBlock elements in the section

\* Detail texts: no label; the labels A, B and C, each with its marker and a
\* schedule; a label whose schedule is followed by the line-break marker and
\* more text; a label right after another label's marker; a label without
\* the marker; a letter outside A..F.
PlainDetail == <<"d">>
MethodA == <<"A", "m", "|", "x">>
MethodB == <<"B", "m", "|", "y">>
MethodC == <<"C", "m", "|", "z">>
MethodThenMore == <<"A", "m", "|", "s", "ENTER", "t">>
AdjacentMethods == <<"A", "m", "|", "B", "m", "|", "x">>
Unmarked == <<"A", "m", "x">>
OutOfRange == <<"G", "m", "|", "x">>

DosageDetailTexts ==
    { PlainDetail, MethodA, MethodB, MethodC, MethodThenMore, AdjacentMethods,
      Unmarked, OutOfRange }

\* Table blocks: a header row and one data row (two of them, told apart by
\* their cells), and a header row alone.
BsaTable ==
    [simple_table |-> TRUE,
     rows |-> << <<TextCell(<<"h">>), TextCell(<<"h">>)>>,
                 <<TextCell(<<"r">>), TextCell(<<"v">>)>> >>]
OtherBsaTable ==
    [simple_table |-> TRUE,
     rows |-> << <<TextCell(<<"h">>), TextCell(<<"h">>)>>,
                 <<TextCell(<<"q">>), TextCell(<<"w">>)>> >>]
HeaderOnlyTable ==
    [simple_table |-> TRUE,
     rows |-> << <<TextCell(<<"h">>), TextCell(<<"h">>)>> >>]

TableBlocks == { BsaTable, OtherBsaTable, HeaderOnlyTable }

\* DosageParser(root) leaves file_path at its default, the empty string.
ParserPaths == { "", FilePath }

\* The SimpleList of the DoseAdmin: none, or one Item with a Header and a
\* Detail.
WalkedItem == [depth |-> 1, headers |-> <<PlainHeader>>, details |-> << <<"i">> >>]
DosageItemChoices == { <<>>, <<WalkedItem>> }

InitDosage ==
    /\ pc = "start"
    /\ parser_path \in ParserPaths
    /\ \/ dosage_section = NoDose
       \/ \E ds \in SeqsUpTo(DosageDetailTexts, MaxDetails),
             tbls \in SeqsUpTo(TableBlocks, MaxTables),
             its \in DosageItemChoices,
             dose_admin \in BOOLEAN :
             dosage_section = [NoDose EXCEPT !.info = TRUE,
                                             !.dose_admin = dose_admin,
                                             !.details = ds,
                                             !.items = its,
                                             !.tbl_blocks = tbls]
    /\ complex = "unknown"
    /\ grown_section = <<>>
    /\ complex_grown = "unknown"
    /\ dosage_records = <<>>
    /\ DedupIdle
    /\ WalkIdle
    /\ HeaderIdle
    /\ ClinicalIdle
    /\ LaterIdle

\* complex = DosageParser(root, file_path)._has_complex_dosage_methods()
RunHasComplexDosageMethods ==
    /\ pc = "start"
    /\ complex' = HasComplexDosageMethods(parser_path, dosage_section)
    /\ pc' = "detected"
    /\ UNCHANGED <<parser_path, dosage_section, grown_section, complex_grown,
                   dosage_records, dedupVars, walkVars, headerVars, clinicalVars, laterVars>>

\* The same call on the document with Details and table blocks added at the
\* end of its dosage section.
RunHasComplexAfterAdding ==
    /\ pc = "detected"
    /\ dosage_section.info
    /\ \E ds \in SeqsUpTo({MethodA, MethodB}, 2) \ {<<>>},
          tbls \in SeqsUpTo({BsaTable}, 1) :
          /\ grown_section' = [dosage_section EXCEPT !.details = @ \o ds,
                                                      !.tbl_blocks = @ \o tbls]
          /\ complex_grown' = HasComplexDosageMethods(parser_path, grown_section')
    /\ pc' = "grown"
    /\ UNCHANGED <<parser_path, dosage_section, complex, dosage_records,
                   dedupVars, walkVars, headerVars, clinicalVars, laterVars>>

\* dosages = DosageParser(root, file_path).extract_dosages()
RunExtractDosagesOfSection ==
    /\ pc = "start"
    /\ LET got == ExtractDosages(parser_path, dosage_section,
                                 ElementTexts(dosage_section))
       IN  /\ dosage_records' = got.texts
           /\ pc' = IF got.raised THEN "raised" ELSE "extracted"
    /\ UNCHANGED <<parser_path, dosage_section, complex, grown_section,
                   complex_grown, dedupVars, walkVars, headerVars, clinicalVars, laterVars>>

NextDosage ==
    \/ RunHasComplexDosageMethods
    \/ RunHasComplexAfterAdding
    \/ RunExtractDosagesOfSection

SpecDosage == InitDosage /\ [][NextDosage]_vars

-----------------------------------------------------------------------------
(* SpecTable: the two table decoders of DosageParser on one SimpleTable     *)

MaxRows == 2         \* most data rows of the table

\* Cells: a text, no text, whitespace, the no-data placeholder; 'm' with a
\* superscript 2 and text after it, 'm' with a superscript 3, a superscript
\* ' 2', a superscript 2 inside an element nested in the Lang, and a
\* superscript whose 2 stands inside an element of its own.
EmptyCell == TextCell(<<>>)
BlankCell == TextCell(<<" ">>)
NoDataCell == TextCell(NoData)
SquaredCell ==
    << [text |-> <<"m">>,
        children |-> << [tag |-> "Sup", text |-> <<"2">>, kids |-> <<>>,
                         tail |-> <<"x">>] >>] >>
CubedCell ==
    << [text |-> <<"m">>,
        children |-> << [tag |-> "Sup", text |-> <<"3">>, kids |-> <<>>,
                         tail |-> <<>>] >>] >>
PaddedSupCell ==
    << [text |-> <<"m">>,
        children |-> << [tag |-> "Sup", text |-> <<" ", "2">>, kids |-> <<>>,
                         tail |-> <<>>] >>] >>
MarkedSupCell ==
    << [text |-> <<"m">>,
        children |-> << [tag |-> "Sup", text |-> <<>>,
                         kids |-> << [tag |-> "Italic", text |-> <<"2">>,
                                      tail |-> <<>>] >>,
                         tail |-> <<>>] >>] >>
NestedCell ==
    << [text |-> <<>>,
        children |-> << [tag |-> "Italic", text |-> <<"k">>,
                         kids |-> << [tag |-> "Sup", text |-> <<"2">>,
                                      tail |-> <<"y">>] >>,
                         tail |-> <<"z">>] >>] >>

\* Header rows: three labels; the first cell empty; the second cell empty.
HeaderRowChoices ==
    { <<TextCell(<<"h0">>), TextCell(<<"h1">>), TextCell(<<"h2">>)>>,
      <<EmptyCell, TextCell(<<"h1">>), TextCell(<<"h2">>)>>,
      <<TextCell(<<"h0">>), EmptyCell, TextCell(<<"h2">>)>> }

\* Data rows, the first cell the range or the procedure.
DataRowChoices ==
    { <<>>,
      <<TextCell(<<"r">>)>>,
      <<TextCell(<<"r">>), TextCell(<<"v">>)>>,
      <<SquaredCell, TextCell(<<"v">>)>>,
      <<CubedCell, NestedCell>>,
      <<PaddedSupCell, TextCell(<<"v">>)>>,
      <<MarkedSupCell, TextCell(<<"v">>)>>,
      <<EmptyCell, TextCell(<<"v">>)>>,
      <<TextCell(<<"r">>), BlankCell>>,
      <<TextCell(<<"r">>), TextCell(<<"v">>), TextCell(<<"w">>)>>,
      <<TextCell(<<"r">>), NoDataCell, TextCell(<<"w">>)>>,
      <<TextCell(<<"r">>), NoDataCell, EmptyCell>>,
      <<EmptyCell, TextCell(<<"v">>), TextCell(<<"w">>)>> }

InitTable ==
    /\ pc = "start"
    /\ \E header_row \in HeaderRowChoices,
          data \in SeqsUpTo(DataRowChoices, MaxRows) :
          table_rows = <<header_row>> \o data
    /\ bsa_entries = <<>>
    /\ table_entries = <<>>
    /\ DedupIdle
    /\ WalkIdle
    /\ HeaderIdle
    /\ ClinicalIdle
    /\ DosageIdle
    /\ AdditiveIdle
    /\ GeneratorIdle
    /\ BatchIdle

\* dosage_by_bsa = self._parse_complex_dosage_table(simple_table)
RunParseComplexDosageTable ==
    /\ pc = "start"
    /\ bsa_entries' = ParseComplexDosageTable(table_rows)
    /\ pc' = "decoded"
    /\ UNCHANGED <<table_rows, table_entries, dedupVars, walkVars, headerVars,
                   clinicalVars, dosageVars, additiveVars, generatorVars,
                   batchVars>>

\* table_dosages = self._parse_dosage_table(tbl_block)
RunParseDosageTable ==
    /\ pc = "start"
    /\ table_entries' =
           ParseDosageTable([simple_table |-> TRUE, rows |-> table_rows])
    /\ pc' = "parsed"
    /\ UNCHANGED <<table_rows, bsa_entries, dedupVars, walkVars, headerVars,
                   clinicalVars, dosageVars, additiveVars, generatorVars,
                   batchVars>>

NextTable == RunParseComplexDosageTable \/ RunParseDosageTable

SpecTable == InitTable /\ [][NextTable]_vars

-----------------------------------------------------------------------------
(* CompositionParser: the additive list recovered from the raw file         *)
(*                                                                          *)
(* The file is a sequence of CompositionForBrand elements, each a record:   *)
(*   ref    its ref attribute                                               *)
(*   lists  the texts of the ListOfAdditives/Lang[ja] elements of its       *)
(*          CompositionTable, as written in the file                        *)
(* A text as written is a sequence of characters, the processing            *)
(* instruction <?enter?> ("ENTER"), the entity "&amp;" and an amount with   *)
(* its unit ("1mg") each being one element.                                 *)

MaxElements == 2     \* most CompositionForBrand elements in the file
MaxLists == 2        \* most ListOfAdditives in one CompositionTable

Amount == "1mg"

\* Element.text of a Lang written as raw: the parser drops the processing
\* instructions and decodes the entities.
ElementText(raw) ==
    LET kept == Remove(raw, "ENTER")
    IN  [p \in DOMAIN kept |-> IF kept[p] = "&amp;" THEN "&" ELSE kept[p]]

\* re.split(r'<\?enter\?>', match)
RECURSIVE SplitAtEnter(_)
SplitAtEnter(match) ==
    LET markers == { p \in DOMAIN match : match[p] = "ENTER" }
    IN  IF markers = {} THEN <<match>>
        ELSE LET p == CHOOSE q \in markers : \A r \in markers : q <= r
             IN  <<SubSeq(match, 1, p - 1)>>
                 \o SplitAtEnter(SubSeq(match, p + 1, Len(match)))

\* re.findall of the pattern that starts at a CompositionForBrand whose ref
\* is brand_id: each match runs from such a start tag over the first
\* ListOfAdditives behind it, in whichever element that is, to the next end
\* tag, and the search goes on behind the match.
RECURSIVE BrandMatches(_, _, _)
BrandMatches(content, brand_id, from) ==
    LET starts == { e \in from..Len(content) : content[e].ref = brand_id }
    IN  IF starts = {} THEN <<>>
        ELSE LET e1 == CHOOSE e \in starts : \A f \in starts : e <= f
                 holders == { e \in e1..Len(content) : content[e].lists # <<>> }
             IN  IF holders = {} THEN <<>>
                 ELSE LET e2 == CHOOSE e \in holders : \A f \in holders : e <= f
                      IN  <<Head(content[e2].lists)>>
                          \o BrandMatches(content, brand_id, e2 + 1)

\* matches = re.findall(pattern, raw_content, re.DOTALL)
RawMatches(content, brand_id) ==
    IF brand_id # None /\ brand_id # ""
    THEN BrandMatches(content, brand_id, 1)
    ELSE ConcatAll([e \in 1..Len(content) |-> content[e].lists])

\* A mismatch-prone variant of CleanMatch that keeps the whitespace.
CleanMatchKeepingSpace(match) == Remove(match, "ENTER")

\* match_clean: the markers, then the whitespace, removed
CleanMatch(match) == Remove(Remove(match, "ENTER"), " ")

\* _extract_additive_list_from_raw_xml
ExtractAdditiveListFromRawXml(parsed_text, content, brand_id, readable) ==
    IF ~readable \/ parsed_text = <<>>
    THEN IF parsed_text # <<>> THEN <<parsed_text>> ELSE <<>>
    ELSE LET matches == RawMatches(content, brand_id)
             parsed_clean == Remove(parsed_text, " ")
             equal == { k \in DOMAIN matches :
                          CleanMatch(matches[k]) = parsed_clean }
         IN  IF equal = {} THEN <<parsed_text>>
             ELSE LET k == CHOOSE q \in equal : \A r \in equal : q <= r
                      pieces == SplitAtEnter(matches[k])
                      stripped == [q \in DOMAIN pieces |-> Strip(pieces[q])]
                  IN  SelectSeq(stripped, LAMBDA x : x # <<>>)

\* _parse_additive_item: a name, whitespace and a closing amount are taken
\* apart; anything else is the name.
ParseAdditiveItem(item) ==
    LET it == Strip(item)
    IN  IF Len(it) >= 3 /\ it[Len(it)] = Amount /\ IsSpace(it[Len(it) - 1])
        THEN [individual_additive |-> Strip(SubSeq(it, 1, Len(it) - 2)),
              value_and_unit |-> <<Amount>>]
        ELSE [individual_additive |-> it, value_and_unit |-> <<>>]

\* The texts of the ListOfAdditives elements extract_compositions visits
ListTexts(content, brand_id) ==
    LET composition_elements ==
            IF brand_id # None /\ brand_id # ""
            THEN SelectSeq(content, LAMBDA c : c.ref = brand_id)
            ELSE content
        list_additives ==
            ConcatAll([e \in 1..Len(composition_elements) |->
                          composition_elements[e].lists])
        texts == [k \in 1..Len(list_additives) |-> ElementText(list_additives[k])]
    IN  SelectSeq(texts, LAMBDA x : x # <<>>)

\* The calls of _extract_additive_list_from_raw_xml extract_compositions
\* makes, with what each returns
RecoveredLists(content, brand_id, readable) ==
    LET texts == ListTexts(content, brand_id)
    IN  [k \in 1..Len(texts) |->
            [parsed_text |-> texts[k],
             additive_items |->
                 ExtractAdditiveListFromRawXml(texts[k], content, brand_id,
                                               readable)]]

\* result["additives"] for tables that hold ListOfAdditives only
ListAdditives(content, brand_id, readable) ==
    LET lists == RecoveredLists(content, brand_id, readable)
        additive_items ==
            ConcatAll([k \in 1..Len(lists) |-> lists[k].additive_items])
        kept == SelectSeq(additive_items, LAMBDA x : Strip(x) # <<>>)
        parsed == [k \in 1..Len(kept) |-> ParseAdditiveItem(Strip(kept[k]))]
    IN  CompositionRemoveDuplicates(
            SelectSeq(parsed, LAMBDA e : e.individual_additive # <<>>), {})

RawListChoices ==
    { <<"a", "ENTER", "b">>,
      <<"a", "b">>,
      <<"a", " ", "ENTER", "ENTER", " ", "b">>,
      <<"a", "&amp;", "ENTER", "b">>,
      <<"ENTER">>,
      <<"a", " ", Amount, "ENTER", "b">> }

RawElementChoices ==
    [ref : {"B1", "B2"}, lists : SeqsUpTo(RawListChoices, MaxLists)]

InitAdditive ==
    /\ pc = "start"
    /\ raw_document \in SeqsUpTo(RawElementChoices, MaxElements)
    /\ additive_brand \in {None, "B1", "B2"}
    /\ raw_readable \in BOOLEAN
    /\ recovered = <<>>
    /\ additives_found = <<>>
    /\ DedupIdle
    /\ WalkIdle
    /\ HeaderIdle
    /\ ClinicalIdle
    /\ DosageIdle
    /\ TableIdle
    /\ GeneratorIdle
    /\ BatchIdle

\* structured_data = CompositionParser(root, brand_id, file_path)
\*                       .extract_compositions()
RunExtractAdditives ==
    /\ pc = "start"
    /\ recovered' = RecoveredLists(raw_document, additive_brand, raw_readable)
    /\ additives_found' =
           ListAdditives(raw_document, additive_brand, raw_readable)
    /\ pc' = "extracted"
    /\ UNCHANGED <<raw_document, additive_brand, raw_readable, dedupVars,
                   walkVars, headerVars, clinicalVars, dosageVars, tableVars,
                   generatorVars, batchVars>>

NextAdditive == RunExtractAdditives

SpecAdditive == InitAdditive /\ [][NextAdditive]_vars

-----------------------------------------------------------------------------
(* PMDAJSONGeneratorOptimized and utils.file_processor                      *)
(*                                                                          *)
(* A file of the directory is a record:                                     *)
(*   path     its path, here its place in the walk                          *)
(*   ext      the extension of its name, as written                         *)
(*   content  its bytes: "one" a document of one brand, "two" a document of *)
(*            two brands, "bad" a document process_all_brands raises on     *)
(* Batches are numbered from 1 here, from 0 in the code.                    *)

MaxFiles == 3        \* most files in the directory
MaxBatchSize == 2    \* largest batch_size handed to the generator

\* str.lower() of an extension
LowerCase(ext) == IF ext = ".XML" THEN ".xml" ELSE ext

ParseExtensions == {".xml", ".sgml"}

\* calculate_file_hash: files of the same bytes, and no others, get the
\* same digest
CalculateFileHash(content) == <<"sha256", content>>

\* The files find_duplicate_files and detect_parse_candidates look at
CheckedFiles(dir) ==
    SelectSeq(dir, LAMBDA f : LowerCase(f.ext) \in ParseExtensions)

\* find_duplicate_files: for every digest met more than once, the paths
\* that have it, in walk order
FindDuplicateFiles(dir) ==
    LET checked == CheckedFiles(dir)
        PathsOf(h) ==
            LET same == SelectSeq(checked,
                                  LAMBDA f : CalculateFileHash(f.content) = h)
            IN  [k \in 1..Len(same) |-> same[k].path]
        file_hashes == { CalculateFileHash(f.content) : f \in Range(checked) }
    IN  [h \in { g \in file_hashes : Len(PathsOf(g)) > 1 } |-> PathsOf(h)]

\* detect_parse_candidates with ignore_duplicates: the paths kept
RECURSIVE DetectLoop(_, _)
DetectLoop(files, processed_hashes) ==
    IF files = <<>> THEN <<>>
    ELSE LET file_hash == CalculateFileHash(Head(files).content)
         IN  IF file_hash \notin processed_hashes
             THEN <<Head(files).path>>
                  \o DetectLoop(Tail(files), processed_hashes \cup {file_hash})
             ELSE DetectLoop(Tail(files), processed_hashes)

DetectParseCandidates(dir) == DetectLoop(CheckedFiles(dir), {})

\* The files generate_json_optimized finds: file.endswith(('.xml', '.sgml'))
AllFiles(dir) == SelectSeq(dir, LAMBDA f : f.ext \in ParseExtensions)

\* The loop of generate_json_optimized that drops the duplicates
RECURSIVE UniqueFilesLoop(_, _, _)
UniqueFilesLoop(all_files, duplicates, duplicate_hashes) ==
    IF all_files = <<>> THEN [unique_files |-> <<>>, duplicate_files |-> 0]
    ELSE LET file_path == Head(all_files).path
             holding == { h \in DOMAIN duplicates :
                            file_path \in Range(duplicates[h]) }
         IN  IF holding # {} /\ holding \subseteq duplicate_hashes
             THEN LET rest == UniqueFilesLoop(Tail(all_files), duplicates,
                                              duplicate_hashes)
                  IN  [unique_files |-> rest.unique_files,
                       duplicate_files |-> rest.duplicate_files + 1]
             ELSE LET rest == UniqueFilesLoop(Tail(all_files), duplicates,
                                              duplicate_hashes \cup holding)
                  IN  [unique_files |-> <<Head(all_files)>> \o rest.unique_files,
                       duplicate_files |-> rest.duplicate_files]

\* BatchProcessor._create_batches: files[i:i + batch_size] for every i from
\* 0 in steps of batch_size
CreateBatches(files, size) ==
    LET count == (Len(files) + size - 1) \div size
    IN  [b \in 1..count |->
            SubSeq(files, (b - 1) * size + 1,
                   IF b * size < Len(files) THEN b * size ELSE Len(files))]

\* The document a file holds
ContentDoc(file) ==
    [basic |-> file.path,
     brands |-> IF file.content = "two" THEN <<BrandB1, BrandB2>>
                ELSE <<BrandB1>>,
     dose |-> IF file.content = "bad"
              THEN [NoDose EXCEPT !.info = TRUE, !.details = << TwoMethods >>]
              ELSE DetailsOnlyDose(<< <<"d">> >>),
     adverse |-> [section |-> "none", tree |-> <<>>, instructions |-> <<>>,
                  reactions |-> <<>>],
     tables |-> <<TableB1, TableB2>>]

NoBatchStats ==
    [processed_files |-> 0, error_files |-> 0, medicines_count |-> 0,
     xml_parse_count |-> 0]

\* The loop of process_batch_worker over the files of its batch
RECURSIVE ProcessBatchFiles(_, _, _)
ProcessBatchFiles(batch_files, batch_medicines, batch_stats) ==
    IF batch_files = <<>>
    THEN [medicines |-> batch_medicines, stats |-> batch_stats]
    ELSE LET got == ProcessAllBrands(ContentDoc(Head(batch_files)))
         IN  IF ~got.raised /\ got.medicines # <<>>
             THEN ProcessBatchFiles(Tail(batch_files),
                      batch_medicines \o got.medicines,
                      [batch_stats EXCEPT
                           !.medicines_count = @ + Len(got.medicines),
                           !.processed_files = @ + 1,
                           !.xml_parse_count = @ + 1])
             ELSE ProcessBatchFiles(Tail(batch_files), batch_medicines,
                      [batch_stats EXCEPT !.error_files = @ + 1])

\* process_batch_worker
ProcessBatchWorker(batch_files) ==
    ProcessBatchFiles(batch_files, <<>>, NoBatchStats)

\* The loop of _update_statistics_batch over the records of a batch
RECURSIVE CountClinicalInfo(_, _)
CountClinicalInfo(stats, batch_medicines) ==
    IF batch_medicines = <<>> THEN stats
    ELSE LET clinical_info == Head(batch_medicines).clinical_info
             Got(c) == IF c \in DOMAIN clinical_info THEN clinical_info[c]
                       ELSE <<>>
         IN  CountClinicalInfo(
                 [stats EXCEPT
                     !.medicines_with_clinical_info =
                         [c \in Range(Categories) |->
                             IF Got(c) # <<>> THEN @[c] + 1 ELSE @[c]],
                     !.vectors_count =
                         [c \in Range(Categories) |-> @[c] + Len(Got(c))]],
                 Tail(batch_medicines))

\* A variant of _update_statistics_batch that takes the medicine counter of
\* the batch in hand for the total
UpdateStatisticsOverwriting(stats, batch_stats, batch_medicines) ==
    CountClinicalInfo(
        [stats EXCEPT
            !.processed_files = @ + batch_stats.processed_files,
            !.error_files = @ + batch_stats.error_files,
            !.medicines_count = batch_stats.medicines_count,
            !.xml_parse_count = @ + batch_stats.xml_parse_count],
        batch_medicines)

\* _update_statistics_batch
UpdateStatisticsBatch(stats, batch_stats, batch_medicines) ==
    CountClinicalInfo(
        [stats EXCEPT
            !.processed_files = @ + batch_stats.processed_files,
            !.error_files = @ + batch_stats.error_files,
            !.medicines_count = @ + batch_stats.medicines_count,
            !.xml_parse_count = @ + batch_stats.xml_parse_count],
        batch_medicines)

\* self.statistics as __init__ leaves it
NoStatistics ==
    [total_files_found |-> 0, duplicate_files |-> 0, processed_files |-> 0,
     error_files |-> 0, medicines_count |-> 0, xml_parse_count |-> 0,
     batch_count |-> 0,
     vectors_count |-> [c \in Range(Categories) |-> 0],
     medicines_with_clinical_info |-> [c \in Range(Categories) |-> 0]]

-----------------------------------------------------------------------------
(* SpecBatch: generate_json_optimized on a directory, its workers ending in *)
(* any order, and detect_parse_candidates on the same directory             *)

FileKinds ==
    [ext : {".xml", ".XML"}, content : {"one", "two", "bad"}]
    \cup { [ext |-> ".txt", content |-> "one"] }

InitBatch ==
    /\ pc = "start"
    /\ \E kinds \in SeqsUpTo(FileKinds, MaxFiles) :
          directory = [k \in 1..Len(kinds) |->
                          [path |-> k, ext |-> kinds[k].ext,
                           content |-> kinds[k].content]]
    /\ batch_size \in 1..MaxBatchSize
    /\ unique_files = <<>>
    /\ batches = <<>>
    /\ worker_results = <<>>
    /\ collected = <<>>
    /\ all_medicines = <<>>
    /\ run_statistics = NoStatistics
    /\ candidates = <<0>>
    /\ DedupIdle
    /\ WalkIdle
    /\ HeaderIdle
    /\ ClinicalIdle
    /\ DosageIdle
    /\ TableIdle
    /\ AdditiveIdle
    /\ GeneratorIdle

otherVars ==
    <<dedupVars, walkVars, headerVars, clinicalVars, dosageVars, tableVars,
      additiveVars, generatorVars>>

\* generate_json_optimized up to the submission of the batches: the files
\* found, the duplicates dropped, the batches made.  _create_batches divides
\* by the number of batches, so it raises when no file is left.
SubmitBatches ==
    /\ pc = "start"
    /\ LET all_files == AllFiles(directory)
           kept == UniqueFilesLoop(all_files, FindDuplicateFiles(directory), {})
           made == CreateBatches(kept.unique_files, batch_size)
       IN  /\ unique_files' = kept.unique_files
           /\ batches' = made
           /\ run_statistics' =
                  [run_statistics EXCEPT
                       !.total_files_found = Len(all_files),
                       !.duplicate_files = kept.duplicate_files,
                       !.batch_count = IF made = <<>> THEN @ ELSE Len(made)]
           /\ pc' = IF made = <<>> THEN "raised" ELSE "running"
    /\ UNCHANGED <<directory, batch_size, worker_results, collected,
                   all_medicines, candidates, otherVars>>

\* A worker returns from process_batch_worker(batch, batch_id).
WorkerReturns ==
    /\ pc = "running"
    /\ \E b \in DOMAIN batches \ DOMAIN worker_results :
          worker_results' = worker_results @@ (b :> ProcessBatchWorker(batches[b]))
    /\ UNCHANGED <<pc, directory, batch_size, unique_files, batches, collected,
                   all_medicines, run_statistics, candidates, otherVars>>

\* The body of 'for future in as_completed(future_to_batch)' for a batch
\* whose worker has returned
CollectBatch ==
    /\ pc = "running"
    /\ \E b \in DOMAIN worker_results \ Range(collected) :
          LET batch_medicines == worker_results[b].medicines
              batch_stats == worker_results[b].stats
          IN  /\ collected' = Append(collected, b)
              /\ IF batch_medicines # <<>>
                 THEN /\ all_medicines' = all_medicines \o batch_medicines
                      /\ run_statistics' =
                             UpdateStatisticsBatch(run_statistics, batch_stats,
                                                   batch_medicines)
                 ELSE UNCHANGED <<all_medicines, run_statistics>>
    /\ UNCHANGED <<pc, directory, batch_size, unique_files, batches,
                   worker_results, candidates, otherVars>>

\* self._save_json_optimized(all_medicines), once every future is handled
SaveJson ==
    /\ pc = "running"
    /\ Len(collected) = Len(batches)
    /\ pc' = "saved"
    /\ UNCHANGED <<batchVars, otherVars>>

\* unique_file_candidates = detect_parse_candidates(xml_sgml_path,
\*                                                  ['.xml', '.sgml'], True)
RunDetectParseCandidates ==
    /\ candidates = <<0>>
    /\ candidates' = DetectParseCandidates(directory)
    /\ UNCHANGED <<pc, directory, batch_size, unique_files, batches,
                   worker_results, collected, all_medicines, run_statistics,
                   otherVars>>

NextBatch ==
    \/ SubmitBatches
    \/ WorkerReturns
    \/ CollectBatch
    \/ SaveJson
    \/ RunDetectParseCandidates

SpecBatch == InitBatch /\ [][NextBatch]_vars

-----------------------------------------------------------------------------
(* Claims about remove_duplicates_by_key *)

HasKey(item, k) == k \in DOMAIN item

\* The positions of its that hold the first dict carrying their key value.
FirstOccurrences(its, k) ==
    { i \in DOMAIN its :
        /\ HasKey(its[i], k)
        /\ \A j \in 1..(i - 1) : HasKey(its[j], k) => its[j][k] # its[i][k] }

\* res picks exactly the positions P of its, in their order.
RECURSIVE PicksInOrder(_, _, _)
PicksInOrder(its, P, res) ==
    IF P = {} THEN res = <<>>
    ELSE LET m == CHOOSE i \in P : \A j \in P : i <= j IN
         /\ res # <<>>
         /\ Head(res) = its[m]
         /\ PicksInOrder(its, P \ {m}, Tail(res))

\* C2: remove_duplicates_by_key(items, key) is the subsequence of items, in
\* the original order, made of the first item of every distinct key value;
\* no later item of the same value and no item without the key is in it.
C2_FirstOccurrenceSubsequence ==
    pc \in {"once", "twice"} =>
        PicksInOrder(items, FirstOccurrences(items, key), result)

\* A run in which a later item of an already seen value was dropped.
C2_Witness ==
    /\ pc = "once"
    /\ Len(result) >= 2
    /\ \E i, j \in DOMAIN items :
          /\ i < j
          /\ HasKey(items[i], key) /\ HasKey(items[j], key)
          /\ items[i][key] = items[j][key]
          /\ items[i] # items[j]

\* C3: deduplication is idempotent: running remove_duplicates_by_key on its
\* own result with key 'text' returns that result unchanged.
C3_Idempotent ==
    (pc = "twice" /\ key = "text") => result2 = result

\* A second run over the result of a run that did drop something.
C3_Witness ==
    /\ pc = "twice"
    /\ key = "text"
    /\ result # <<>>
    /\ Len(result) < Len(items)

-----------------------------------------------------------------------------
(* Claims about the nested item walk *)

WalkDone == pc = "done" /\ section # "none"

\* combine(parent, current) as the specification words it: both joined by
\* ':' when both are non-empty, otherwise whichever is non-empty, or empty.
Combine(parent, current) ==
    IF parent # <<>> /\ current # <<>>
    THEN parent \o Colon \o current
    ELSE parent \o current

\* The frame of the invocation that made call k: the nearest earlier frame of
\* the calling Item.
CallerIndex(k) ==
    CHOOSE j \in 1..(k - 1) :
        /\ calls[j].item = calls[k].from
        /\ \A m \in (j + 1)..(k - 1) : calls[m].item # calls[k].from

CallerOf(k) == calls[CallerIndex(k)]

\* C6: the context an Item passes to its nested Items is
\* combine(parent context, own header); a call made by the extractor starts
\* from the empty context; the dosage walk and the side-effect walk combine
\* the same inputs to the same value.
C6_ContextPassedIsCombine ==
    WalkDone =>
        \A k \in DOMAIN calls :
            LET f == calls[k] IN
            /\ f.combined_condition = Combine(f.parent_condition, f.current_condition)
            /\ DosageCombine(f.parent_condition, f.current_condition)
                   = SideEffectCombine(f.parent_condition, f.current_condition)
            /\ (f.from = 0 => f.parent_condition = <<>>)
            /\ (f.from # 0 => f.parent_condition = CallerOf(k).combined_condition)

\* A nested Item with a header of its own reached with a non-empty context.
C6_Witness ==
    /\ WalkDone
    /\ \E k \in DOMAIN calls :
          /\ calls[k].from # 0
          /\ calls[k].parent_condition # <<>>
          /\ calls[k].current_condition # <<>>
          /\ calls[k].combined_condition # calls[k].parent_condition

\* The ancestors of Item i, outermost first.
Ancestors(t, i) ==
    [d \in 1..(t[i].depth - 1) |->
        CHOOSE j \in 1..(i - 1) :
            /\ t[j].depth = d
            /\ \A m \in (j + 1)..i : t[m].depth > d]

\* The non-empty texts of ss joined by ':'.
RECURSIVE JoinNonEmpty(_)
JoinNonEmpty(ss) ==
    IF ss = <<>> THEN <<>>
    ELSE Combine(Head(ss), JoinNonEmpty(Tail(ss)))

\* The condition headers of the Items js, joined outermost first.
HeaderChain(t, js) ==
    JoinNonEmpty([k \in 1..Len(js) |-> ExtractConditionHeader(t, js[k])])

AsPrefix(context) == IF context # <<>> THEN context \o Colon ELSE <<>>

SeverityPrefix ==
    IF section = "SeriousAdverseEvents" THEN Serious \o Colon
    ELSE IF section = "OtherAdverseEvents" THEN NonSerious \o Colon
    ELSE <<>>

\* The invocations that walk the section top-down: the extractor's call for
\* an Item of the section's own list, and the nested calls below it.
RECURSIVE TopDownCall(_)
TopDownCall(k) ==
    IF calls[k].from = 0
    THEN tree[calls[k].item].depth = 1
    ELSE TopDownCall(CallerIndex(k))

\* C7: the context prefix of every record emitted for a Detail of an Item is
\* the headers of the Item's ancestors, outermost first, followed by the
\* Item's own header; Items without a header contribute nothing, and no
\* header of another subtree appears.  (After the prefix the record may name
\* the header once more ahead of the Detail text, and the own header may
\* stand as written in the document.)
C7_PrefixIsAncestorChain ==
    WalkDone =>
        \A k \in DOMAIN calls :
            LET f == calls[k]
                anc == Ancestors(tree, f.item)
                full == AsPrefix(HeaderChain(tree, Append(anc, f.item)))
                outer == AsPrefix(HeaderChain(tree, anc))
                h == HeaderText(tree, f.item)
                ds == StrippedDetails(tree[f.item].details)
            IN  TopDownCall(k) =>
                    \A n \in 1..Len(ds) :
                        f.emitted[n] \in
                            { SeverityPrefix \o full \o ds[n],
                              SeverityPrefix \o full \o h \o Colon \o ds[n],
                              SeverityPrefix \o outer \o h \o Colon \o ds[n] }

\* C9: an Item with nested Items and no Detail of its own emits no record
\* for itself.
C9_ContainerEmitsNothing ==
    WalkDone =>
        \A k \in DOMAIN calls :
            (/\ Children(tree, calls[k].item) # <<>>
             /\ tree[calls[k].item].details = <<>>)
                => calls[k].emitted = <<>>

\* The renderings C10 allows for the records of one invocation: severity,
\* then the condition context if any, then name ':' description, or the name
\* alone when there is no description; a Detail without a header is the name.
SeverityNameDescription(f) ==
    LET h == HeaderText(tree, f.item)
        ds == Range(StrippedDetails(tree[f.item].details))
        contexts == { <<>>, AsPrefix(f.combined_condition) }
    IN  IF h # <<>>
        THEN { SeverityPrefix \o c \o h \o Colon \o d : c \in contexts, d \in ds }
             \cup (IF ds = {} THEN { SeverityPrefix \o c \o h : c \in contexts } ELSE {})
        ELSE { SeverityPrefix \o c \o d : c \in contexts, d \in ds }

\* The renderings of the AdverseReactionDescription Details: severity, the
\* condition of an instruction Item if any, the Detail text.
SeverityReaction ==
    { SeverityPrefix \o c \o d :
        c \in { <<>> } \cup { AsPrefix(ConditionOfHeaders(instructions[k])) :
                                 k \in DOMAIN instructions },
        d \in Range(StrippedDetails(reactions)) }

\* C10: every record of extract_side_effects is severity ':' name ':'
\* description, or severity ':' name without a description, the severity
\* being that of the section and the leftmost token, ahead of any condition
\* context; a serious Item with a Header and a Detail yields exactly
\* serious ':' header ':' detail.
C10_SeverityNameDescription ==
    (WalkDone /\ section \in {"SeriousAdverseEvents", "OtherAdverseEvents"}) =>
        /\ \A k \in DOMAIN calls :
               Range(calls[k].emitted) \subseteq SeverityNameDescription(calls[k])
        /\ \A text \in Range(records) :
               /\ SubSeq(text, 1, 2) = SeverityPrefix
               /\ \/ \E k \in DOMAIN calls : text \in Range(calls[k].emitted)
                  \/ text \in SeverityReaction
        /\ section = "SeriousAdverseEvents" =>
               \A i \in DOMAIN tree :
                   \A d \in Range(StrippedDetails(tree[i].details)) :
                       HeaderText(tree, i) # <<>> =>
                           Serious \o Colon \o HeaderText(tree, i) \o Colon \o d
                               \in Range(records)

\* The scenario of the specification: a serious Item with a Header and a
\* Detail yields serious ':' header ':' detail.
C10_Witness ==
    /\ WalkDone
    /\ section = "SeriousAdverseEvents"
    /\ Len(tree) = 1
    /\ records = << Serious \o Colon \o PlainHeader \o Colon \o <<"d">> >>

\* A header text enclosed in the two delimiters, and what they enclose.
IsBracketedHeader(h) ==
    /\ Len(h) >= 5
    /\ h[1] = "<"
    /\ h[Len(h)] = ">"
    /\ \A p \in 2..(Len(h) - 1) : h[p] \notin {"<", ">", " "}

Enclosed(h) == SubSeq(h, 2, Len(h) - 1)

\* C11: a non-serious entry with a bracketed Header <H> and a Detail D
\* produces the record non-serious ':' H ':' D, the header once and without
\* its delimiters: for an Item of the section that carries the Header and
\* the Detail itself, and for an instruction Item that carries the Header
\* with the Detail in an AdverseReactionDescription.
C11_BracketedHeaderOnce ==
    (WalkDone /\ section = "OtherAdverseEvents") =>
        /\ \A k \in DOMAIN calls :
               LET f == calls[k]
                   hs == tree[f.item].headers
                   ds == StrippedDetails(tree[f.item].details)
               IN  (f.from = 0 /\ Len(hs) = 1 /\ IsBracketedHeader(hs[1])) =>
                       \A n \in 1..Len(ds) :
                           f.emitted[n] = NonSerious \o Colon \o Enclosed(hs[1])
                                              \o Colon \o ds[n]
        /\ \A k \in DOMAIN instructions :
               LET hs == instructions[k]
                   ds == StrippedDetails(reactions)
               IN  (Len(hs) = 1 /\ IsBracketedHeader(hs[1])) =>
                       \A n \in 1..Len(ds) :
                           NonSerious \o Colon \o Enclosed(hs[1]) \o Colon \o ds[n]
                               \in Range(records)

-----------------------------------------------------------------------------
(* Claims about extract_condition_header *)

HeaderDone == pc \in {"xml_utils", "side_effect"}

\* A header text that carries both delimiters of a bracketed qualifier.
Bracketed(text) == \E m, n \in DOMAIN text : text[m] = "<" /\ text[n] = ">"

WithoutDelimiters(text) == SelectSeq(text, LAMBDA c : c \notin {"<", ">"})

\* What one header text is worth: the content of a bracketed qualifier of at
\* least three characters, an unbracketed text of 2..199 characters as it
\* stands, and nothing otherwise.  Surrounding whitespace does not count.
Qualifier(text) ==
    LET h == Strip(text)
        content == Strip(WithoutDelimiters(h))
    IN  IF Bracketed(h)
        THEN IF Len(content) >= 3 THEN content ELSE <<>>
        ELSE IF Len(h) > 1 /\ Len(h) < 200 THEN h ELSE <<>>

-----------------------------------------------------------------------------
(* Claims about the extractors and SharedXMLProcessor *)

\* C1: extract_clinical_info and process_all_brands return normally for
\* every document; no failure of a category extractor reaches the caller.
C1_NoFailurePropagates == pc # "raised"

NoTwoAlike(texts) ==
    \A m, n \in DOMAIN texts : texts[m] = texts[n] => m = n

\* C4: the list each category extractor returns holds no two records with
\* the same text.
C4_NoDuplicateTexts ==
    \A k \in DOMAIN extractions :
        \A c \in Range(Categories) : NoTwoAlike(extractions[k][c])

\* C5: the text of every record an extractor returns is non-empty and has
\* no leading or trailing whitespace.
C5_TextsTrimmed ==
    \A k \in DOMAIN extractions :
        \A c \in Range(Categories) :
            \A text \in Range(extractions[k][c]) :
                /\ text # <<>>
                /\ ~IsSpace(text[1])
                /\ ~IsSpace(text[Len(text)])

-----------------------------------------------------------------------------
(* Claims about the complex dosage structure *)

LabelLetters == {"A", "B", "C", "D", "E", "F"}

\* text holds the method label of letter: the letter, the sign, the marker.
HoldsLabel(text, letter) ==
    \E p \in DOMAIN text :
        /\ p + 2 <= Len(text)
        /\ text[p] = letter /\ text[p + 1] = "m" /\ text[p + 2] = "|"

\* The distinct method labels in the Detail texts of a dosage section.
LabelsHeld(sec) ==
    { letter \in LabelLetters :
        \E text \in Range(AllDetailTexts(sec)) : HoldsLabel(text, letter) }

\* The classification by content: two distinct labels, or two table blocks.
ComplexByContent(sec) ==
    sec.info /\ (Cardinality(LabelsHeld(sec)) >= 2 \/ Len(sec.tbl_blocks) >= 2)

\* C12: the detector classifies a document complex if and only if its dosage
\* text holds at least two distinct method labels A..F each followed by the
\* marker, or its dosage section holds at least two table blocks; nothing
\* but the document content decides.
C12_ComplexIffLabelsOrTables ==
    pc \in {"detected", "grown"} =>
        ((complex = TRUE) <=> ComplexByContent(dosage_section))

\* C13: detection is monotonic.  Adding method-label occurrences so that the
\* dosage text holds two distinct labels turns a document classified
\* standard into one classified complex, and adding label occurrences or
\* table blocks never turns a document classified complex into standard.
C13_DetectionMonotonic ==
    pc = "grown" =>
        /\ (complex = FALSE /\ Cardinality(LabelsHeld(grown_section)) >= 2)
               => complex_grown = TRUE
        /\ complex = TRUE => complex_grown = TRUE

\* extract_dosages took the complex path and returned.
ComplexPathTaken ==
    /\ pc = "extracted"
    /\ parser_path # ""
    /\ ComplexByContent(dosage_section)

StartsWith(text, prefix) ==
    Len(text) >= Len(prefix) /\ SubSeq(text, 1, Len(prefix)) = prefix

EndsWith(text, suffix) ==
    /\ Len(text) >= Len(suffix)
    /\ SubSeq(text, Len(text) - Len(suffix) + 1, Len(text)) = suffix

\* The head of the record of a method: the letter, the sign, ':'.
RecordHead(letter) == <<letter, "m", ":">>

\* The place of a letter in A..F.
LetterOrdinal(letter) == CHOOSE n \in 1..6 : MethodLetters[n] = letter

\* The range ':' dose pairs of the n-th table block of sec, none without it.
PairsOfTable(sec, n) ==
    IF n <= Len(sec.tbl_blocks) /\ sec.tbl_blocks[n].simple_table
    THEN ParseComplexDosageTable(sec.tbl_blocks[n].rows)
    ELSE <<>>

\* rec is label ':' schedule '/bsa' pairs joined, or label ':' schedule when
\* there are no pairs.
RenderedMethod(rec, letter, pairs) ==
    /\ StartsWith(rec, RecordHead(letter))
    /\ IF pairs # <<>>
       THEN EndsWith(rec, BsaPrefix \o JoinWith(BsaSeparator, pairs))
       ELSE \A p \in DOMAIN rec : rec[p] # "bsa"

\* C14: on the complex path every method label of the dosage text has one
\* record, rendered label ':' schedule '/bsa' and the range ':' dose pairs
\* of its table joined by the separator when the table yields rows, and
\* label ':' schedule otherwise.
C14_OneRecordPerLabel ==
    ComplexPathTaken =>
        \A letter \in LabelsHeld(dosage_section) :
            \E k \in DOMAIN dosage_records :
                /\ RenderedMethod(dosage_records[k], letter,
                                  PairsOfTable(dosage_section, LetterOrdinal(letter)))
                /\ \A j \in DOMAIN dosage_records :
                       StartsWith(dosage_records[j], RecordHead(letter)) => j = k

-----------------------------------------------------------------------------
(* Claims about the document-wide scan *)

\* The label each field is known by; "youhou" is the one the source spells
\* out, the others stand for the labels of their fields.
FieldLabelOf(c) ==
    CASE c = "indications" -> "kounou"
      [] c = "dosage" -> "youhou"
      [] c = "contraindications" -> "kinki"
      [] c = "warnings" -> "keikoku"
      [] c = "side_effects" -> "fukusayou"
      [] c = "interactions" -> "sougosayou"
      [] c = "compositions" -> "sosei"

\* The leaf texts of the document that mention the label of category c,
\* trimmed, in document order.
ScanHits(d, c) ==
    LET found == SelectSeq(DocElementTexts(d),
                           LAMBDA text : FieldLabelOf(c) \in Range(text))
    IN  [n \in 1..Len(found) |-> Strip(found[n])]

\* The dosage records extracted from the structure of the section.
StructuralDosages(d) ==
    IF HasComplexDosageMethods(FilePath, d.dose)
    THEN ExtractComplexDosages(d.dose).texts
    ELSE AppendUnique(<<>>, IF d.dose.info /\ d.dose.dose_admin
                            THEN DoseAdminTexts(d.dose) ELSE <<>>)

\* C15: every extractor scans the whole document for leaf text mentioning
\* its field label; what the scan finds is in the extractor's result,
\* appended after the structurally extracted records when no record
\* collected before has the same text, and the records collected before
\* the scan stay as they were, in their order.
C15_EveryExtractorScans ==
    pc \in {"returned", "listed"} =>
        \A k \in DOMAIN extractions :
            /\ \A c \in Range(Categories) :
                   Range(ScanHits(doc, c)) \subseteq Range(extractions[k][c])
            /\ extractions[k].dosage
                   = AppendUnique(StructuralDosages(doc), ScanHits(doc, "dosage"))

-----------------------------------------------------------------------------
(* Claims about the brand resolver and the composition extractor *)

\* The brand nodes of d that carry the product code.
NodesCarrying(d, code) ==
    { n \in DOMAIN d.brands : Strip(d.brands[n].yj_code) = code }

\* The id of the first node of d that carries the code, none without one.
IdOfCode(d, code) ==
    IF NodesCarrying(d, code) = {} THEN None
    ELSE d.brands[CHOOSE n \in NodesCarrying(d, code) :
                      \A m \in NodesCarrying(d, code) : n <= m].id

\* C16: for every brand extract_all_brands returns with a product code, the
\* resolver returns the id of the first brand node in document order that
\* carries that code; it returns none when no code is given.
C16_BrandIdOfCode ==
    pc = "listed" =>
        \A k \in DOMAIN extractions :
            LET brand_info == BrandCalls(doc)[k] IN
            IF brand_info = <<>> \/ brand_info[1].yj_code = <<>>
            THEN extractions[k].brand_id = None
            ELSE extractions[k].brand_id = IdOfCode(doc, brand_info[1].yj_code)

\* The composition texts of one table read on its own.
EntriesOfTable(t) == Range(ParseCompositions(<<t>>, None))

\* The composition texts of the tables of d that are scoped to brand bid.
EntriesScopedTo(d, bid) ==
    UNION { EntriesOfTable(d.tables[n]) :
                n \in { m \in DOMAIN d.tables : d.tables[m].ref = bid } }

\* The composition texts of every table of d.
EntriesOfDocument(d) ==
    UNION { EntriesOfTable(d.tables[n]) : n \in DOMAIN d.tables }

\* C17: composition extraction without a brand id returns the entries of
\* every composition table of the document; with a brand id it returns only
\* the entries of the tables scoped to that brand, and when the document
\* scopes no table to that brand it returns the entries of every table
\* instead of nothing.
C17_CompositionScoping ==
    pc = "listed" =>
        \A k \in DOMAIN extractions :
            ~extractions[k].raised =>
                LET bid == extractions[k].brand_id
                    scoped == { m \in DOMAIN doc.tables : doc.tables[m].ref = bid }
                IN  Range(extractions[k].compositions) =
                        IF bid = None \/ scoped = {}
                        THEN EntriesOfDocument(doc)
                        ELSE EntriesScopedTo(doc, bid)

-----------------------------------------------------------------------------
(* Claims about the shared document tree *)

\* The categories whose extractor takes no brand.
UnscopedCategories ==
    {"indications", "dosage", "contraindications", "warnings",
     "side_effects", "interactions"}

\* Every extractor call of process_all_brands returned, for each category
\* that is not brand-scoped, the list the first call returned.
SameAsFirstRun ==
    pc = "listed" =>
        \A k \in DOMAIN extractions :
            \A c \in UnscopedCategories :
                extractions[k][c] = extractions[1][c]

-----------------------------------------------------------------------------
(* Claims about the pairing of labels and tables, and the text cut *)

\* Every Detail of the section holds one method label at its start, and no
\* two Details hold the same label: the n-th Detail holds the n-th label
\* found.
OneLabelPerDetail(sec) ==
    /\ sec.details # <<>>
    /\ \A n \in DOMAIN sec.details :
           sec.details[n] \in {MethodA, MethodB, MethodC, MethodThenMore}
    /\ \A n, m \in DOMAIN sec.details :
           n # m => sec.details[n][1] # sec.details[m][1]

\* C19: on the complex path the n-th method label found is paired with the
\* n-th table block of the section in document order: its record carries
\* the pairs of that table, so with as many tables as labels every label
\* has a table.
C19_LabelOrdinalPairsTable ==
    (ComplexPathTaken /\ OneLabelPerDetail(dosage_section)) =>
        \A n \in DOMAIN dosage_section.details :
            \E k \in DOMAIN dosage_records :
                RenderedMethod(dosage_records[k], dosage_section.details[n][1],
                               PairsOfTable(dosage_section, n))

\* The first place from position 'from' on where text holds the line-break
\* marker, one past the end of the text without one.
FirstMarker(text, from) ==
    CHOOSE e \in from..(Len(text) + 1) :
        /\ e = Len(text) + 1 \/ text[e] = "ENTER"
        /\ \A f \in from..(e - 1) : text[f] # "ENTER"

\* The end of the segment of the label at p: the place before the next
\* label after the first character that follows the label, or the end.
SegmentEnd(text, p) ==
    CHOOSE e \in (p + 3)..Len(text) :
        /\ e = Len(text) \/ LabelAt(text, e + 1)
        /\ \A f \in (p + 3)..(e - 1) : ~LabelAt(text, f + 1)

\* The schedule of the label at p: what follows the label in its segment up
\* to the first marker, trimmed.
ScheduleAfter(text, p) ==
    LET segment == SubSeq(text, p + 3, SegmentEnd(text, p))
    IN  Strip(SubSeq(segment, 1, FirstMarker(segment, 1) - 1))

\* The schedule a method record carries: what stands between its head and
\* the table part.
ScheduleIn(rec) ==
    LET tail == { b \in DOMAIN rec : rec[b] = "bsa" }
        stop == IF tail = {} THEN Len(rec) + 1
                ELSE (CHOOSE b \in tail : \A c \in tail : b <= c) - 1
    IN  SubSeq(rec, 4, stop - 1)

\* The premise of a section: its first Detail, trimmed, up to the first
\* marker; <<>> when that is empty.
PremiseOf(sec) ==
    IF sec.details = <<>> THEN <<>>
    ELSE LET first == Strip(sec.details[1])
         IN  SubSeq(first, 1, FirstMarker(first, 1) - 1)

-----------------------------------------------------------------------------
(* Claims about the choice of the dosage strategy *)

\* rec is a record of the complex path: the premise, or a method record.
IsComplexRecord(sec, rec) ==
    \/ rec = PremiseOf(sec)
    \/ \E letter \in LabelLetters : StartsWith(rec, RecordHead(letter))

\* rec is a record of the table decoder: procedure, arrow, doses.
IsTableRecord(rec) == "->" \in Range(rec)

\* The records the item walk gives for the Items of the section.
ItemWalkRecords(sec) ==
    Range(TextsOf(DosageFramesOf(sec.items, TopItems(sec.items))))

\* The section was classified complex by a parser that was given its path.
ClassifiedComplex == parser_path # "" /\ ComplexByContent(dosage_section)

\* C21: extract_dosages applies one strategy per document.  Classified
\* complex, the result holds only records of the complex path; otherwise it
\* holds no method record, and a DoseAdmin with at least one table block
\* gives no record of the item walk, a DoseAdmin without table blocks no
\* record of the table decoder.
C21_OneStrategy ==
    pc = "extracted" =>
        IF ClassifiedComplex
        THEN \A k \in DOMAIN dosage_records :
                 /\ IsComplexRecord(dosage_section, dosage_records[k])
                 /\ ~IsTableRecord(dosage_records[k])
                 /\ dosage_records[k] \notin ItemWalkRecords(dosage_section)
        ELSE /\ \A k \in DOMAIN dosage_records, letter \in LabelLetters :
                    ~StartsWith(dosage_records[k], RecordHead(letter))
             /\ dosage_section.tbl_blocks # <<>> =>
                    \A k \in DOMAIN dosage_records :
                        dosage_records[k] \notin ItemWalkRecords(dosage_section)
             /\ dosage_section.tbl_blocks = <<>> =>
                    \A k \in DOMAIN dosage_records :
                        ~IsTableRecord(dosage_records[k])

\* A DoseAdmin with a Detail, an Item and one table that has a data row,
\* not complex: the result is the Detail and the table's record.
C21_Witness ==
    /\ pc = "extracted"
    /\ ~ClassifiedComplex
    /\ dosage_section.items = <<WalkedItem>>
    /\ dosage_section.details = <<PlainDetail>>
    /\ dosage_section.tbl_blocks = <<BsaTable>>
    /\ Len(dosage_records) = 2
    /\ dosage_records[1] = PlainDetail
    /\ IsTableRecord(dosage_records[2])

-----------------------------------------------------------------------------
(* Claims about the table decoders *)

\* The text a cell stands for, superscripts rendered: cell by cell.
Rendered(cell) ==
    CASE cell = SquaredCell -> <<"m", "sq", "x">>
      [] cell = CubedCell -> <<"m", "3">>
      [] cell = PaddedSupCell -> <<"m", " ", "2">>
      [] cell = NestedCell -> <<"k", "sq", "y", "z">>
      [] cell = MarkedSupCell -> <<"m", "2">>
      [] OTHER -> cell[1].text

\* The data rows with at least two cells whose first two cells are not empty.
RowsWithRangeAndDose ==
    { n \in 2..Len(table_rows) :
        /\ Len(table_rows[n]) >= 2
        /\ Strip(Rendered(table_rows[n][1])) # <<>>
        /\ Strip(Rendered(table_rows[n][2])) # <<>> }

\* The k-th element of a set of row numbers, in row order.
NthOf(S, k) == CHOOSE n \in S : Cardinality({ m \in S : m <= n }) = k

\* C22: decoding a body-surface-area table skips the header row and emits,
\* for every later row with at least two cells whose first two cells are
\* both non-empty, the entry range ':' dose, in row order; a superscript
\* whose content is exactly 2 is rendered as the superscript two, every
\* other superscript content is kept as it is, and the text after a node
\* follows it.
C22_BsaTableDecoded ==
    pc = "decoded" =>
        /\ Len(bsa_entries) = Cardinality(RowsWithRangeAndDose)
        /\ \A k \in DOMAIN bsa_entries :
               LET row == table_rows[NthOf(RowsWithRangeAndDose, k)]
               IN  bsa_entries[k] =
                       Strip(Rendered(row[1])) \o <<":">> \o Strip(Rendered(row[2]))

\* The text of a cell for the generic decoder: the text of its Lang, trimmed.
CellWord(cell) == Strip(cell[1].text)

\* The columns of a data row that hold a dose: not empty, not the placeholder.
DoseColumns(row) ==
    { i \in 2..Len(row) : CellWord(row[i]) \notin {<<>>, NoData} }

\* The dose of column i under the label of column i of the header row, or
\* alone when that column has no label.
LabelledDose(row, i) ==
    LET header_row == table_rows[1]
    IN  IF i <= Len(header_row) /\ CellWord(header_row[i]) # <<>>
        THEN CellWord(header_row[i]) \o <<":">> \o CellWord(row[i])
        ELSE CellWord(row[i])

\* The data rows that have a procedure and at least one dose.
RowsWithProcedureAndDose ==
    { n \in 2..Len(table_rows) :
        /\ table_rows[n] # <<>>
        /\ CellWord(table_rows[n][1]) # <<>>
        /\ DoseColumns(table_rows[n]) # {} }

\* C23: generic table decoding emits one record for each data row that has
\* a procedure and a dose, none for a row whose procedure cell is empty or
\* whose dose cells are all empty or the placeholder, and in a record each
\* dose of column i stands under the header-row label of column i, also
\* when some header cell is empty.
C23_DoseUnderItsColumnLabel ==
    pc = "parsed" =>
        /\ Len(table_entries) = Cardinality(RowsWithProcedureAndDose)
        /\ \A k \in DOMAIN table_entries :
               LET row == table_rows[NthOf(RowsWithProcedureAndDose, k)]
                   doses == [j \in 1..Cardinality(DoseColumns(row)) |->
                                LabelledDose(row, NthOf(DoseColumns(row), j))]
               IN  table_entries[k] =
                       CellWord(row[1]) \o Arrow \o JoinWith(Slash, doses)

-----------------------------------------------------------------------------
(* Claims about the indications extractor *)

IndicationsDone == pc = "done" /\ section = "IndicationsOrEfficacy"

\* C24: the indications extractor renders an Item with a Header and a
\* Detail as context ':' text, the context being the Item's header as the
\* condition-context rule resolves it (delimiters stripped) behind the
\* headers of its ancestor Items; an Item with a Detail and no Header as the
\* text behind its ancestors' headers, alone when there are none; and an
\* Item with a Header, no Detail and no nested Item as the header text.
C24_IndicationContext ==
    IndicationsDone =>
        \A i \in DOMAIN tree :
            LET anc == Ancestors(tree, i)
                full == AsPrefix(HeaderChain(tree, Append(anc, i)))
                outer == AsPrefix(HeaderChain(tree, anc))
            IN  /\ \A d \in Range(StrippedDetails(tree[i].details)) :
                       (full \o d) \in Range(records)
                /\ (/\ tree[i].details = <<>>
                    /\ Children(tree, i) = <<>>
                    /\ HeaderText(tree, i) # <<>>)
                       => (outer \o HeaderText(tree, i)) \in Range(records)

-----------------------------------------------------------------------------
(* Claims about the additive list *)

\* A text without its line-break markers and its whitespace
Unspaced(text) == SelectSeq(text, LAMBDA c : c # "ENTER" /\ c # " ")

\* The non-empty trimmed pieces of seg between its markers, in order
PiecesOf(seg) ==
    LET cuts == {0} \cup { p \in DOMAIN seg : seg[p] = "ENTER" }
                    \cup {Len(seg) + 1}
        NextCut(p) == CHOOSE q \in cuts : q > p /\ \A r \in cuts : r > p => q <= r
        starts == cuts \ {Len(seg) + 1}
        PieceAt(p) == Strip(SubSeq(seg, p + 1, NextCut(p) - 1))
        kept == { p \in starts : PieceAt(p) # <<>> }
        Nth(k) == CHOOSE p \in kept : Cardinality({ q \in kept : q < p }) = k - 1
    IN  [k \in 1..Cardinality(kept) |-> PieceAt(Nth(k))]

MatchingSegments(parsed_text) ==
    { seg \in Range(RawMatches(raw_document, additive_brand)) :
        Unspaced(seg) = Unspaced(parsed_text) }

\* C25: when the raw file is read and the parsed text of a ListOfAdditives
\* field, without its whitespace, equals a raw segment without its markers
\* and whitespace, the result is the non-empty trimmed pieces of such a
\* segment between its markers, in order, and the pieces put together are
\* the parsed text up to whitespace; when no segment matches or the file
\* cannot be read, the result is the parsed text alone, unsplit.
C25_AdditiveListRecovery ==
    pc = "extracted" =>
        \A k \in DOMAIN recovered :
            LET parsed_text == recovered[k].parsed_text
                returned_items == recovered[k].additive_items
                matching == MatchingSegments(parsed_text)
            IN  IF raw_readable /\ matching # {}
                THEN /\ \E seg \in matching : returned_items = PiecesOf(seg)
                     /\ Unspaced(ConcatAll(returned_items)) = Unspaced(parsed_text)
                ELSE returned_items = <<parsed_text>>

\* A file that was read, with one list split in two at its marker and one
\* list no raw segment matches
C25_Witness ==
    /\ pc = "extracted"
    /\ raw_readable
    /\ \E k \in DOMAIN recovered :
           /\ MatchingSegments(recovered[k].parsed_text) # {}
           /\ Len(recovered[k].additive_items) = 2
    /\ \E k \in DOMAIN recovered :
           /\ MatchingSegments(recovered[k].parsed_text) = {}
           /\ recovered[k].additive_items = <<recovered[k].parsed_text>>

-----------------------------------------------------------------------------
(* Claims about the Items extract_side_effects walks *)

SideEffectsDone ==
    WalkDone /\ section \in {"SeriousAdverseEvents", "OtherAdverseEvents"}

\* The invocations of _process_nested_items made for Item i
CallsFor(i) == { k \in DOMAIN calls : calls[k].item = i }

\* C26: in extract_side_effects every Item under a serious or non-serious
\* section is handed to the nested walk exactly once: an Item of the
\* section's own list by the extractor, a nested Item by the walk of its
\* parent, so that no nested Item is walked without its ancestors' context.
C26_EachItemWalkedOnce ==
    SideEffectsDone =>
        \A i \in DOMAIN tree :
            /\ Cardinality(CallsFor(i)) = 1
            /\ \A k \in CallsFor(i) :
                   IF tree[i].depth = 1 THEN calls[k].from = 0
                   ELSE /\ calls[k].from # 0
                        /\ calls[k].parent_condition
                               = HeaderChain(tree, Ancestors(tree, i))

-----------------------------------------------------------------------------
(* Claims about the two pipelines *)

\* C27: for every document and every brand, extract_clinical_info returns
\* the same categories with the same ordered lists of texts as
\* _process_clinical_info, also when an extractor fails or returns a text
\* more than once.
C27_PipelinesEquivalent ==
    pc = "processed" =>
        LET shared == ExtractClinicalInfo(doc, generator_brand)
        IN  /\ ~shared.raised
            /\ shared.info = generator_info

-----------------------------------------------------------------------------
(* Claims about the batch generator *)

\* C28: process_batch_worker counts every file of its batch exactly once, as
\* processed or as error, and once generate_json_optimized has finished
\* processed_files + error_files is the number of unique files submitted,
\* also when a batch produced no medicine record.
C28_FileAccountingComplete ==
    /\ \A b \in DOMAIN worker_results :
           worker_results[b].stats.processed_files
               + worker_results[b].stats.error_files = Len(batches[b])
    /\ pc = "saved" =>
           run_statistics.processed_files + run_statistics.error_files
               = Len(unique_files)

\* How often x occurs in the sequence seq
Occurrences(seq, x) == Cardinality({ k \in DOMAIN seq : seq[k] = x })

SameMultiset(s1, s2) ==
    \A x \in Range(s1) \cup Range(s2) : Occurrences(s1, x) = Occurrences(s2, x)

\* The records and the statistics after the batches from b on are handled
\* one after the other, in batch order
RECURSIVE SequentialFrom(_, _, _)
SequentialFrom(b, medicines_so_far, stats) ==
    IF b > Len(batches) THEN [medicines |-> medicines_so_far, statistics |-> stats]
    ELSE LET got == ProcessBatchWorker(batches[b])
         IN  IF got.medicines # <<>>
             THEN SequentialFrom(b + 1, medicines_so_far \o got.medicines,
                      UpdateStatisticsBatch(stats, got.stats, got.medicines))
             ELSE SequentialFrom(b + 1, medicines_so_far, stats)

Sequential == SequentialFrom(1, <<>>, NoStatistics)

\* C29: whatever the order in which the workers end, the batches partition
\* the unique files, the output holds the records of every batch exactly
\* once, and the multiset of records and the medicine and vector counters
\* are those of handling the batches one after the other in batch order.
C29_CompletionOrderIrrelevant ==
    pc = "saved" =>
        /\ ConcatAll(batches) = unique_files
        /\ \A b \in DOMAIN batches : batches[b] # <<>>
        /\ SameMultiset(all_medicines,
               ConcatAll([b \in DOMAIN batches |-> worker_results[b].medicines]))
        /\ SameMultiset(all_medicines, Sequential.medicines)
        /\ run_statistics.medicines_count = Sequential.statistics.medicines_count
        /\ run_statistics.vectors_count = Sequential.statistics.vectors_count
        /\ run_statistics.medicines_with_clinical_info
               = Sequential.statistics.medicines_with_clinical_info

\* Two batches with records, the later one handled first
C29_Witness ==
    /\ pc = "saved"
    /\ \E i, j \in DOMAIN collected :
          /\ i < j
          /\ collected[i] > collected[j]
          /\ worker_results[collected[i]].medicines # <<>>
          /\ worker_results[collected[j]].medicines # <<>>
    /\ all_medicines # Sequential.medicines

\* The first file of each content among the files fs, in walk order
FirstOfEachContent(fs) ==
    SelectSeq(fs, LAMBDA f :
        \A g \in Range(fs) : g.content = f.content => f.path <= g.path)

PathsOfFiles(fs) == { f.path : f \in Range(fs) }

\* C30: of the files of each content the deduplication keeps exactly one,
\* the first met in walk order, and drops no file whose content is unique;
\* duplicate_files is the number of files found less the number kept; and
\* the optimized generator and detect_parse_candidates select the same files.
C30_ContentHashDedup ==
    /\ candidates # <<0>> =>
           candidates = [k \in 1..Len(FirstOfEachContent(CheckedFiles(directory))) |->
                            FirstOfEachContent(CheckedFiles(directory))[k].path]
    /\ pc \in {"running", "saved"} =>
           /\ unique_files = FirstOfEachContent(AllFiles(directory))
           /\ run_statistics.duplicate_files
                  = run_statistics.total_files_found - Len(unique_files)
    /\ (candidates # <<0>> /\ pc \in {"running", "saved"}) =>
           PathsOfFiles(unique_files) = Range(candidates)

====
